---------------------------- MODULE Spec2Model ----------------------------
(***************************************************************************)
(* Lyric orchestration, tiered caching and the word-level provider's       *)
(* session token of better-lyrics/cf-api, as state machines.               *)
(*                                                                         *)
(* Specifications:                                                         *)
(*   SpecNeg    CacheService.getNegative applied to enumerated inputs.     *)
(*   SpecProv   concurrent calls of the line provider (LrcLib) and of the  *)
(*              markup-synced provider (GoLyricsApi) for one identifier,   *)
(*              with their registered background operations.               *)
(*   SpecToken  a sequence of requests using the word-level provider       *)
(*              (Musixmatch) for a track without lyrics: the session       *)
(*              token.                                                     *)
(*   SpecWord   two concurrent requests using the word-level provider.     *)
(*   Spec       one request through Lyrics.handle and                      *)
(*              LyricsService.getLyrics with its three provider calls;     *)
(*              SpecFair is Spec with weak fairness of its steps.          *)
(*   SpecCache  calls of CacheService (saves, reads, deleteCache) and of   *)
(*              Lyrics.handle's edge cache on the rows and objects of one  *)
(*              identifier and two upstream tracks.                        *)
(*   SpecFlush  the background operations a request registers with         *)
(*              addAwait and their flush at the request boundary.          *)
(*   SpecAlign  the alignment of Musixmatch.getLrcWordByWord applied to    *)
(*              enumerated word-level and line-level transcripts.          *)
(***************************************************************************)
EXTENDS Integers, Sequences, FiniteSets, TLC

VARIABLES
    gn,              \* SpecNeg: inputs and result of one getNegative evaluation
    cacheRev,        \* which revision of CacheService the providers run against
    now,             \* Math.floor(Date.now() / 1000)
    negative,        \* negative_mappings rows of the identifier: platform -> created_at
    goCache,         \* go_lyrics_cache row of the identifier (or NoRow)
    mxmCache,        \* tracks / lyrics / track_mappings rows of the identifier
    bucket,          \* LYRICS_BUCKET: object key -> content (or NoBlob)
    call,            \* provider calls: position and locals of each
    awaitLists,      \* registered background operations still pending
    token,           \* Musixmatch.ts: let token
    tokenRetryCount, \* Musixmatch.ts: let tokenRetryCount
    resetBy401,      \* history: a 401 answer set a user token to null and no getToken() followed
    tok,             \* getToken() of each request: position and promise
    req,             \* Spec: the request in LyricsService.getLyrics / Lyrics.handle
    db,              \* SpecCache: D1 tables, LYRICS_BUCKET objects and caches.default
    cop,             \* SpecCache: CacheService / Lyrics.handle calls: position and locals
    obs,             \* SpecFlush: the request's ObservabilityStore and its boundary
    al,              \* SpecAlign: inputs and result of one alignment in getLrcWordByWord
    get              \* SpecGet: one call of Musixmatch._get: its loop and the answers so far

cacheVars == <<now, negative, goCache, mxmCache, bucket>>
provVars == <<call, awaitLists>>
tokenVars == <<token, tokenRetryCount, resetBy401, tok>>
sideVars == <<gn, al, get, cacheRev, req, db, cop, obs>>
vars == <<gn, cacheRev, now, negative, goCache, mxmCache, bucket, call, awaitLists,
          token, tokenRetryCount, resetBy401, tok, req, db, cop, obs, al, get>>

-----------------------------------------------------------------------------
(* Values *)

NoRow == [present |-> FALSE, created_at |-> 0]
Row(t) == [present |-> TRUE, created_at |-> t]

\* An environment string that is not set (undefined).
Unset == <<"undefined">>

DigitVal(ch) ==
    CASE ch = "0" -> 0 [] ch = "1" -> 1 [] ch = "2" -> 2 [] ch = "3" -> 3
      [] ch = "4" -> 4 [] ch = "5" -> 5 [] ch = "6" -> 6 [] ch = "7" -> 7
      [] ch = "8" -> 8 [] ch = "9" -> 9 [] OTHER -> -1

IsDigit(ch) == DigitVal(ch) >= 0

\* A number or NaN.
Num(n) == [nan |-> FALSE, v |-> n]
NaN == [nan |-> TRUE, v |-> 0]

RECURSIVE ParseDigits(_, _, _)
ParseDigits(s, i, acc) ==
    IF i > Len(s) \/ ~IsDigit(s[i]) THEN acc
    ELSE ParseDigits(s, i + 1, acc * 10 + DigitVal(s[i]))

\* parseInt of a string of characters: its leading digits, NaN when there are none.
ParseInt(s) ==
    IF Len(s) = 0 \/ ~IsDigit(s[1]) THEN NaN ELSE Num(ParseDigits(s, 1, 0))

\* A string in a condition: undefined and "" are falsy.
StrTruthy(s) == s # Unset /\ Len(s) > 0

\* a > b on numbers: false when b is NaN.
Greater(a, b) == ~b.nan /\ a > b.v

\* Platforms under which the providers keep negative entries.
NegPlatforms == {"lrclib", "golyrics", "youtube_music"}

\* Text values: null, the empty string and contents.
Null == "null"
Empty == ""
Contents == {"lyricsA", "lyricsB"}

NoBlob == "<no object>"
GoKey == "videoId/ttml.gz"
RichKey == "trackId/rich_sync.gz"
SyncKey == "trackId/normal_sync.gz"
BucketKeys == {GoKey, RichKey, SyncKey}

NoGoRow == [present |-> FALSE, r2_key |-> GoKey, last_accessed_at |-> 0, last_updated_at |-> 0]

\* A provider's answer: null, or a LyricsResponse object.
NullResult ==
    [isNull |-> TRUE, richSynced |-> Null, synced |-> Null, unsynced |-> Null, ttml |-> Null]
LyricsResult(rich, syn, uns, tt) ==
    [isNull |-> FALSE, richSynced |-> rich, synced |-> syn, unsynced |-> uns, ttml |-> tt]

NoTrack == [present |-> FALSE, last_accessed_at |-> 0, last_updated_at |-> 0]

\* tracks row, formats with a lyrics row, and whether track_mappings has the row
\* of the identifier.
NoMxmRows == [track |-> NoTrack, lyrics |-> {}, mapped |-> FALSE]

NegUnseen == [seen |-> FALSE, hit |-> FALSE, stale |-> FALSE]

\* A provider call: kind (which provider), pc (where its code waits), ret (the
\* promise given to the caller), val (the answer given), got (what fetchAndSave
\* returned), neg (the negativeStatus read), bg (fetchAndSave runs registered in
\* the background), fetches (upstream requests issued), lastUpdatedAt (of the
\* cache row read); of the word-level provider also miss (the positive cache
\* did not answer), rows (formats of the cache rows read), saw401 (which upstream
\* call answered 401), sub / subVal (the track.subtitle.get promise and its
\* synced text), rich (lrcStr) and align (outcome of the alignment).
CallIdle ==
    [kind |-> "none", pc |-> "idle", ret |-> "pending", val |-> NullResult,
     got |-> NullResult, neg |-> NegUnseen, bg |-> FALSE, fetches |-> 0,
     lastUpdatedAt |-> 0, miss |-> FALSE, rows |-> {}, saw401 |-> "none",
     sub |-> "none", subVal |-> Null, rich |-> Null, align |-> "none"]

\* getToken() of a request: where it waits and its promise; cookies: the
\* cookies field of the Musixmatch instance the request's LyricsService made;
\* asked: its _get('token.get') asked the upstream; after401: the call is
\* waiting for _get, having asked for a token that a 401 answer had reset.
TokIdle ==
    [pc |-> "idle", promise |-> "pending", cookies |-> {}, asked |-> FALSE,
     after401 |-> FALSE]

\* The request of Spec before it arrives.
\* pc: where getLyrics waits; duration: whether a duration is known; the
\* fields of the aggregate response; then: the provider calls whose .then /
\* .catch ran; race: lrcLibPromiseRace; lrcLibTimeout: the grace period in
\* tenths of a millisecond; status: the HTTP status Lyrics.handle answered with.
ReqIdle ==
    [pc |-> "idle", duration |-> FALSE, lrclibSyncedLyrics |-> Null,
     lrclibPlainLyrics |-> Null, musixmatchWordByWordLyrics |-> Null,
     musixmatchSyncedLyrics |-> Null, goLyricsApiTtml |-> Null,
     then |-> {}, race |-> "pending", mxmError |-> FALSE, lrcLibTimeout |-> 0,
     status |-> 0]

\* A registered background operation.
Op(c, name, platform, ts, content) ==
    [by |-> c, op |-> name, platform |-> platform, ts |-> ts, content |-> content,
     format |-> "none", step |-> 1]

-----------------------------------------------------------------------------
(* CacheService: the tables of D1, the objects of LYRICS_BUCKET and the       *)
(* entries of caches.default, for SpecCache                                   *)

\* Upstream track ids (musixmatch_track_id); "0" is the number 0, which
\* saveMusixmatchLyrics refuses.
TrackIds == {"101", "202"}
Formats == {"rich_sync", "normal_sync"}

\* `${id}/${format}.gz`
ObjectKey(id, format) == id \o "/" \o format \o ".gz"
ObjectKeys ==
    {ObjectKey(t, f) : t \in TrackIds, f \in Formats} \cup {ObjectKey("videoId", "ttml")}

\* pako.deflate, and pako.inflate(..., {to: 'string'}) which undoes it.
Deflate(content) == "deflate(" \o content \o ")"
Inflate(compressed) == CHOOSE content \in Contents : Deflate(content) = compressed

\* Tables as sets of rows; objects by key; edge: the responses caches.default
\* holds, by request URL (the videoId stands for the URL); responses: the
\* token.get answers Musixmatch._get has put into caches.default under the
\* cacheUrl of token.get, which is the same for every call.
EmptyDb ==
    [tracks |-> {}, lyrics |-> {}, track_mappings |-> {}, go_lyrics_cache |-> {},
     negative_mappings |-> {}, youtube_cache |-> {},
     objects |-> [k \in ObjectKeys |-> NoBlob], edge |-> {}, responses |-> {}]

\* The batch with the mapping inserted whatever rows the table has.
InsertMappingAlways(d, track_id, format, source_track_id) ==
    [d EXCEPT
       !.lyrics = @ \cup {[track_id |-> track_id, format |-> format,
                           r2_object_key |-> ObjectKey(track_id, format)]},
       !.track_mappings = @ \cup {[source_platform |-> "youtube_music",
                                   source_track_id |-> source_track_id,
                                   track_id |-> track_id]}]

\* The batch of saveMusixmatchLyrics: INSERT INTO lyrics ... ON
\* CONFLICT(r2_object_key) DO NOTHING; INSERT INTO track_mappings ... ON CONFLICT
\* DO NOTHING, track_mappings being unique on (source_platform, source_track_id).
InsertLyricsAndMapping(d, track_id, format, source_track_id) ==
    [d EXCEPT
       !.lyrics =
           IF \E l \in @ : l.r2_object_key = ObjectKey(track_id, format) THEN @
           ELSE @ \cup {[track_id |-> track_id, format |-> format,
                         r2_object_key |-> ObjectKey(track_id, format)]},
       !.track_mappings =
           IF \E m \in @ : m.source_platform = "youtube_music"
                           /\ m.source_track_id = source_track_id
           THEN @
           ELSE @ \cup {[source_platform |-> "youtube_music",
                         source_track_id |-> source_track_id, track_id |-> track_id]}]

\* The SELECT of getMusixmatchLyrics: track_mappings JOIN tracks LEFT JOIN lyrics.
\* A row without lyrics has format and r2_object_key null.
SelectMusixmatchLyrics(d, source_track_id) ==
    LET joined == {<<m, t>> \in d.track_mappings \X d.tracks :
                      /\ m.source_platform = "youtube_music"
                      /\ m.source_track_id = source_track_id /\ m.track_id = t.id}
    IN UNION {LET ls == {l \in d.lyrics : l.track_id = mt[2].id}
              IN IF ls = {}
                 THEN {[track_id |-> mt[2].id, format |-> Null, r2_object_key |-> Null]}
                 ELSE {[track_id |-> l.track_id, format |-> l.format,
                        r2_object_key |-> l.r2_object_key] : l \in ls} : mt \in joined}

\* The promises a request can register with addAwait while GoLyricsApi.getLrc
\* answers from the positive cache: by getGoLyrics the UPDATE of
\* last_accessed_at, by getLrc the background fetchAndSave, and by that
\* fetchAndSave the put into the edge cache, saveGoLyrics, the DELETE of the
\* negative entry and saveNegative.
ObsPromises ==
    {"accessUpdate", "fetchAndSave", "cachePut", "saveGoLyrics", "deleteNegative",
     "saveNegative"}

\* The store of runWithObservability before the request's handler runs.
\* pc: where the request is; state: of each promise, "none" while it is not in
\* store.awaitLists; snapshot: Array.from(store.awaitLists) of the flush.
ObsIdle ==
    [pc |-> "getLrc", state |-> [p \in ObsPromises |-> "none"], snapshot |-> {}]

\* A call before it is made. kind: which method; pc: the await it is at; track,
\* format, content: the SaveLyricsData; results: rows read; result: what it
\* returned; after: the calls that had returned when it was made.
CopIdle ==
    [kind |-> "none", pc |-> "idle", track |-> "0", format |-> "none", content |-> Null,
     results |-> {}, result |-> "none", lyrics |-> {}, after |-> {}]

NumCacheOps == 3
NoCacheOps == [i \in 1..NumCacheOps |-> CopIdle]

-----------------------------------------------------------------------------
(* CacheService: negative cache *)

DEFAULT_NEGATIVE_CACHE_TTL == 7 * 86400
DEFAULT_NEGATIVE_CACHE_TTL_LRCLIB == 86400
DEFAULT_NEGATIVE_CACHE_TTL_MUSIXMATCH == 3 * 86400

SourcePlatform ==
    {"youtube_music", "spotify", "apple_music", "musixmatch", "golyrics", "lrclib"}

\* env: [NEGATIVE_CACHE_TTL_LRCLIB, NEGATIVE_CACHE_TTL_MUSIXMATCH]
NegativeTtl(source_platform, env) ==
    IF source_platform = "lrclib"
    THEN IF StrTruthy(env.NEGATIVE_CACHE_TTL_LRCLIB)
         THEN ParseInt(env.NEGATIVE_CACHE_TTL_LRCLIB)
         ELSE Num(DEFAULT_NEGATIVE_CACHE_TTL_LRCLIB)
    ELSE IF source_platform = "youtube_music"
    THEN IF StrTruthy(env.NEGATIVE_CACHE_TTL_MUSIXMATCH)
         THEN ParseInt(env.NEGATIVE_CACHE_TTL_MUSIXMATCH)
         ELSE Num(DEFAULT_NEGATIVE_CACHE_TTL_MUSIXMATCH)
    ELSE Num(DEFAULT_NEGATIVE_CACHE_TTL)

GetNegativeStaleAlways(row, source_platform, nowv, env) ==
    IF ~row.present THEN [hit |-> FALSE, stale |-> FALSE]
    ELSE [hit |-> TRUE, stale |-> nowv - row.created_at >= NegativeTtl(source_platform, env).v]

\* getNegative on the row .first() returned (NoRow: null).
GetNegative(row, source_platform, nowv, env) ==
    IF ~row.present THEN [hit |-> FALSE, stale |-> FALSE]
    ELSE IF Greater(nowv - row.created_at, NegativeTtl(source_platform, env))
         THEN [hit |-> TRUE, stale |-> TRUE]
         ELSE [hit |-> TRUE, stale |-> FALSE]

-----------------------------------------------------------------------------
(* SpecNeg: getNegative on enumerated inputs *)

NowBase == 1000000
EnvTtlSample == 3600

EnvStrings ==
    {Unset, <<>>, <<"3", "6", "0", "0">>, <<"0">>, <<"x">>, <<"3", "6", "0", "0", "s">>}

TtlValues ==
    {DEFAULT_NEGATIVE_CACHE_TTL, DEFAULT_NEGATIVE_CACHE_TTL_LRCLIB,
     DEFAULT_NEGATIVE_CACHE_TTL_MUSIXMATCH, EnvTtlSample, 0}

\* Ages of the rows tried: at, one below and one above each TTL, and a row from
\* a clock that is ahead.
Ages == UNION {{t - 1, t, t + 1} : t \in TtlValues}

\* A fresh instance over empty stores: nothing cached, no token, nothing pending.
EmptyStores ==
    /\ now = NowBase
    /\ negative = [p \in NegPlatforms |-> NoRow]
    /\ goCache = NoGoRow
    /\ mxmCache = NoMxmRows
    /\ bucket = [k \in BucketKeys |-> NoBlob]
    /\ awaitLists = {}
    /\ token = Null
    /\ tokenRetryCount = 0
    /\ resetBy401 = FALSE

-----------------------------------------------------------------------------
(* Musixmatch.getLrcWordByWord: the alignment of the word-level transcript  *)
(* (richsync) with a line-level transcript, for SpecAlign.                  *)
(*                                                                          *)
(* Times are whole seconds, so every quotient below is exact; a mean or a   *)
(* variance is the fraction num / den, and 0 / 0 is JavaScript's NaN.       *)
(* A line-level transcript is the list parseLrc gives for its text          *)
(* ({startTimeMs, words}); the empty list stands for a missing transcript.  *)

NoTime == -1
TokenLimit == 5000
MaxLines == 2
MaxItems == 2

Newline == "\n"
Space == " "

NoTranscript == <<>>

\* String.prototype.toLowerCase on the words tried.
ToLowerCase(word) == IF word = "La" THEN "la" ELSE word

\* words.split(' ') on the line texts tried.
Split(words) ==
    CASE words = "la da" -> <<"la", "da">>
      [] words = "La da" -> <<"La", "da">>
      [] OTHER -> <<words>>

LineTexts == {"la", "la da", "La da"}

\* The line of index k starts at 10 k seconds.
LineTranscripts ==
    UNION {[1..n -> LineTexts] : n \in 1..MaxLines}

Transcript(texts) ==
    [k \in DOMAIN texts |-> [startTimeMs |-> 10000 * k, words |-> texts[k]]]

\* The words of a richsync item, each with its offset from the item's start;
\* a space is a word of its own.
RichWords ==
    {<<[c |-> "la", o |-> 0]>>,
     <<[c |-> "la", o |-> 0], [c |-> Space, o |-> 1], [c |-> "da", o |-> 1]>>,
     <<[c |-> "oh", o |-> 0]>>}

\* How far the word-level times of an item are ahead of the line at 10 k.
Shifts == {0, 2, 5}

RichItems(k) ==
    {[ts |-> 10 * k + d, te |-> 10 * k + d + 4, l |-> l] : d \in Shifts, l \in RichWords}

RichSyncBodies ==
    UNION {{body \in [1..n -> UNION {RichItems(k) : k \in 1..n}] :
               \A k \in 1..n : body[k] \in RichItems(k)} : n \in 1..MaxItems}

FormatTime(timeInSeconds) ==
    [minutes |-> timeInSeconds \div 60, seconds |-> timeInSeconds % 60, hundredths |-> 0]

\* lrcStr as built from richSyncBody, line by line.
LrcStr(richSyncBody) ==
    [k \in DOMAIN richSyncBody |->
        [time |-> FormatTime(richSyncBody[k].ts),
         words |-> [i \in DOMAIN richSyncBody[k].l |->
                       [time |-> FormatTime(richSyncBody[k].ts + richSyncBody[k].l[i].o),
                        c |-> richSyncBody[k].l[i].c]],
         endTime |-> FormatTime(richSyncBody[k].te)]]

\* The concatenation of the sequences of seqs, by halves.
RECURSIVE Flatten(_)
Flatten(seqs) ==
    IF Len(seqs) = 0 THEN <<>>
    ELSE IF Len(seqs) = 1 THEN seqs[1]
    ELSE LET mid == Len(seqs) \div 2
         IN Flatten(SubSeq(seqs, 1, mid)) \o Flatten(SubSeq(seqs, mid + 1, Len(seqs)))

RichSyncTokenArray(richSyncBody) ==
    Flatten([k \in DOMAIN richSyncBody |->
                [i \in DOMAIN richSyncBody[k].l |->
                    [word |-> richSyncBody[k].l[i].c,
                     wordTime |-> richSyncBody[k].ts + richSyncBody[k].l[i].o]]
                \o <<[word |-> Newline, wordTime |-> NoTime]>>])

ParsedLrcTokenArray(parsedLrc) ==
    Flatten([index \in DOMAIN parsedLrc |->
                LET wordsSplit == Split(parsedLrc[index].words)
                IN Flatten([i \in DOMAIN wordsSplit |->
                               <<[word |-> wordsSplit[i],
                                  wordTime |-> IF i = 1
                                               THEN parsedLrc[index].startTimeMs \div 1000
                                               ELSE NoTime]>>
                               \o (IF i # Len(wordsSplit)
                                   THEN <<[word |-> Space, wordTime |-> NoTime]>>
                                   ELSE <<>>)])
                   \o (IF index < Len(parsedLrc)
                       THEN <<[word |-> Newline, wordTime |-> NoTime]>>
                       ELSE <<>>)])

\* The comparator given to diffArrays.
Comparator(left, right) == ToLowerCase(left.word) = ToLowerCase(right.word)

\* diffArrays gives a shortest edit script: its unchanged parts pair the tokens
\* of a longest common subsequence.  LcsTable(left, right, 1)[i][j] is the
\* length of a longest common subsequence of the tokens from the positions i
\* and j on; the row of i is computed from the row of i + 1, a value computed
\* once (pairing a token with its first match is as long as pairing it with a
\* later one).
First(positions) == CHOOSE k \in positions : \A m \in positions : k <= m

LcsRow(left, right, i, next) ==
    LET matches == {k \in 1..Len(right) : Comparator(left[i], right[k])}
    IN [j \in 1..(Len(right) + 1) |->
           LET found == {k \in matches : k >= j}
               paired == IF found = {} THEN 0 ELSE 1 + next[First(found) + 1]
           IN IF next[j] >= paired THEN next[j] ELSE paired]

RECURSIVE LcsTable(_, _, _)
LcsTable(left, right, i) ==
    IF i > Len(left) THEN <<[j \in 1..(Len(right) + 1) |-> 0]>>
    ELSE CHOOSE rows \in {<<LcsRow(left, right, i, rest[1])>> \o rest :
                               rest \in {LcsTable(left, right, i + 1)}} : TRUE

\* The pairings <<leftIndex, rightIndex>>, ... of maximal length from the
\* positions i and j on.
RECURSIVE Pairings(_, _, _, _, _)
Pairings(left, right, lcs, i, j) ==
    IF i > Len(left) \/ j > Len(right) THEN {<<>>}
    ELSE (IF lcs[i + 1][j] = lcs[i][j]
          THEN Pairings(left, right, lcs, i + 1, j) ELSE {})
         \cup UNION {{<<<<i, k>>>> \o m : m \in Pairings(left, right, lcs, i + 1, k + 1)} :
                        k \in {k \in j..Len(right) :
                                   /\ Comparator(left[i], right[k])
                                   /\ 1 + lcs[i + 1][k + 1] = lcs[i][j]}}

\* Every pairing a shortest edit script of left and right can have (the two
\* arrays and the table are values computed once).
DiffArrays(left, right) ==
    UNION {Pairings(t[1], t[2], t[3], 1, 1) :
              t \in {<<l, r, LcsTable(l, r, 1)>> : l \in {left}, r \in {right}}}

\* basicLrcOffset: one sample for each pair of matched tokens timed on both sides.
BasicLrcOffset(left, right, diff) ==
    LET timed == SelectSeq(diff, LAMBDA p : left[p[1]].wordTime # NoTime
                                            /\ right[p[2]].wordTime # NoTime)
    IN [k \in DOMAIN timed |-> right[timed[k][2]].wordTime - left[timed[k][1]].wordTime]

RECURSIVE Reduce(_, _)
Reduce(arr, square) ==
    IF arr = <<>> THEN 0
    ELSE (IF square THEN Head(arr) * Head(arr) ELSE Head(arr)) + Reduce(Tail(arr), square)

\* mean = sum / length; variance = sum of (val - mean)^2 / length, which is
\* (length * sum of val^2 - sum^2) / length^2.
MeanAndVariance(arr) ==
    LET length == Len(arr)
        sum == Reduce(arr, FALSE)
    IN [mean |-> [num |-> sum, den |-> length],
        variance |-> [num |-> length * Reduce(arr, TRUE) - sum * sum,
                      den |-> length * length]]

\* x < y on fractions with denominators >= 0; a comparison with NaN is false.
LessThan(x, y) == x.den # 0 /\ y.den # 0 /\ x.num * y.den < y.num * x.den

Number(n) == [num |-> n, den |-> 1]
VarianceLimit == [num |-> 3, den |-> 2]

\* addPlusSign: "+num" for a positive number, "num" otherwise.
AddPlusSign(num) == [plus |-> LessThan(Number(0), num), num |-> num]

NoOffset == [tagged |-> FALSE, plus |-> FALSE, num |-> Number(0)]
NoRichSynced == [isNull |-> TRUE, offset |-> NoOffset, lrcStr |-> <<>>]
NoStats == [present |-> FALSE, mean |-> Number(0), variance |-> Number(0),
            samples |-> <<>>, diff |-> <<>>]

AlNoResult ==
    [richSynced |-> NoRichSynced, synced |-> NoTranscript, comment |-> "",
     lyricMatchingStats |-> NoStats]

\* The line-level transcript the alignment uses: the one handed in, when one
\* was handed in, else the subtitle of getLrcById.
BasicLrc(lrcLyrics, musixmatchBasicLyrics) ==
    IF lrcLyrics.given THEN lrcLyrics.synced ELSE musixmatchBasicLyrics

TooLongToDiffLeftOnly(parsedLrcTokenArray, richSyncTokenArray) ==
    Len(parsedLrcTokenArray) > TokenLimit

\* The length guard before diffArrays.
TooLongToDiff(parsedLrcTokenArray, richSyncTokenArray) ==
    Len(parsedLrcTokenArray) > TokenLimit \/ Len(richSyncTokenArray) > TokenLimit

\* Whether diffArrays is invoked.
Diffed(basicLrc, richSyncBody) ==
    /\ basicLrc # NoTranscript
    /\ ~TooLongToDiff(ParsedLrcTokenArray(basicLrc), RichSyncTokenArray(richSyncBody))

\* (await musixmatchBasicLyrics)?.synced
SyncedReturned(lrcLyrics, musixmatchBasicLyrics) == musixmatchBasicLyrics

\* getLrcWordByWord after a richsync answer of 200, with the pairing diff that
\* diffArrays gave (unused when diffArrays is not invoked).
GetLrcWordByWord(lrcLyrics, musixmatchBasicLyrics, richSyncBody, diff) ==
    LET lrcStr == LrcStr(richSyncBody)
        richSyncTokenArray == RichSyncTokenArray(richSyncBody)
        basicLrc == BasicLrc(lrcLyrics, musixmatchBasicLyrics)
        parsedLrcTokenArray == ParsedLrcTokenArray(basicLrc)
        basicLrcOffset == BasicLrcOffset(parsedLrcTokenArray, richSyncTokenArray, diff)
        meanVar == MeanAndVariance(basicLrcOffset)
        stats == [present |-> TRUE, mean |-> meanVar.mean, variance |-> meanVar.variance,
                  samples |-> basicLrcOffset, diff |-> diff]
        synced == SyncedReturned(lrcLyrics, musixmatchBasicLyrics)
    IN IF basicLrc # NoTranscript
       THEN IF TooLongToDiff(parsedLrcTokenArray, richSyncTokenArray)
            THEN [richSynced |-> NoRichSynced, synced |-> synced,
                  comment |-> "lyrics too long to diff", lyricMatchingStats |-> NoStats]
            ELSE IF LessThan(meanVar.variance, VarianceLimit)
            THEN [richSynced |-> [isNull |-> FALSE,
                                  offset |-> [tagged |-> TRUE,
                                              plus |-> AddPlusSign(meanVar.mean).plus,
                                              num |-> AddPlusSign(meanVar.mean).num],
                                  lrcStr |-> lrcStr],
                  synced |-> synced, comment |-> "", lyricMatchingStats |-> stats]
            ELSE [richSynced |-> NoRichSynced, synced |-> synced,
                  comment |-> "basic lyrics matched but variance is too high; using basic lyrics instead",
                  lyricMatchingStats |-> stats]
       ELSE [richSynced |-> [isNull |-> FALSE, offset |-> NoOffset, lrcStr |-> lrcStr],
             synced |-> NoTranscript, comment |-> "no synced basic lyrics found",
             lyricMatchingStats |-> NoStats]

AlInputs ==
    [lrcLyrics : [given : {TRUE}, synced : {NoTranscript} \cup {Transcript(t) : t \in LineTranscripts}]
                 \cup {[given |-> FALSE, synced |-> NoTranscript]},
     musixmatchBasicLyrics : {NoTranscript, Transcript(<<"la da", "la">>)},
     richSyncBody : RichSyncBodies,
     done : {FALSE},
     diff : {<<>>},
     result : {AlNoResult}]

\* Transcripts at the length guard: a richsync body of TokenLimit tokens (one
\* word and one line break an item), the same with one more, empty, item, and
\* a line-level transcript of TokenLimit + 1 tokens (a word a line).
LongBody ==
    [k \in 1..(TokenLimit \div 2) |->
        [ts |-> 10 * k, te |-> 10 * k + 4,
         l |-> <<[c |-> IF k = 1 THEN "la" ELSE "oh", o |-> 0]>>]]

LongerBody == Append(LongBody, [ts |-> 10 * (Len(LongBody) + 1),
                                te |-> 10 * (Len(LongBody) + 1) + 4, l |-> <<>>])

LongerTranscript ==
    Transcript([k \in 1..(TokenLimit \div 2 + 1) |-> IF k = 1 THEN "la" ELSE "oh"])

AlLongInputs ==
    [lrcLyrics : {[given |-> TRUE, synced |-> Transcript(<<"la">>)]},
     musixmatchBasicLyrics : {NoTranscript, Transcript(<<"la">>)},
     richSyncBody : {LongBody, LongerBody},
     done : {FALSE}, diff : {<<>>}, result : {AlNoResult}]
    \cup
    [lrcLyrics : {[given |-> TRUE, synced |-> LongerTranscript]},
     musixmatchBasicLyrics : {NoTranscript, Transcript(<<"la">>)},
     richSyncBody : {<<[ts |-> 10, te |-> 14, l |-> <<[c |-> "la", o |-> 0]>>]>>},
     done : {FALSE}, diff : {<<>>}, result : {AlNoResult}]

AlIdle ==
    [lrcLyrics |-> [given |-> FALSE, synced |-> NoTranscript],
     musixmatchBasicLyrics |-> NoTranscript,
     richSyncBody |-> <<>>, done |-> FALSE, diff |-> <<>>, result |-> AlNoResult]

-----------------------------------------------------------------------------
(* Musixmatch._get: the request loop *)

\* if (loopCount > 5) throw new Error("too many redirects")
MaxLoopCount == 5

\* response.status of an answer of the upstream; 301 and 302 are followed.
Statuses == {200, 301, 302, 404}
Redirects == {301, 302}

\* _get before it is called. pc: where the call is; cached: whether
\* cache.match(cacheUrl) gave a response; loopCount: the local; statuses: the
\* response.status of each fetch so far; outcome: how the call ended.
GetIdle ==
    [pc |-> "idle", cached |-> FALSE, loopCount |-> 0, statuses |-> <<>>,
     outcome |-> "none"]

-----------------------------------------------------------------------------
GnIdle == [hit |-> FALSE, stale |-> FALSE, done |-> FALSE]

GnInputs ==
    [platform : SourcePlatform,
     row : {NoRow} \cup {Row(NowBase - a) : a \in Ages},
     nowv : {NowBase},
     env : [NEGATIVE_CACHE_TTL_LRCLIB : EnvStrings,
            NEGATIVE_CACHE_TTL_MUSIXMATCH : {Unset, <<"3", "6", "0", "0">>}],
     result : {GnIdle}]

GnDefault ==
    [platform |-> "lrclib", row |-> NoRow, nowv |-> NowBase,
     env |-> [NEGATIVE_CACHE_TTL_LRCLIB |-> Unset, NEGATIVE_CACHE_TTL_MUSIXMATCH |-> Unset],
     result |-> GnIdle]

GetNegativeCall ==
    /\ ~gn.result.done
    /\ LET r == GetNegative(gn.row, gn.platform, gn.nowv, gn.env)
       IN gn' = [gn EXCEPT !.result = [hit |-> r.hit, stale |-> r.stale, done |-> TRUE]]
    /\ UNCHANGED <<al, get, cacheRev, req, db, cop, obs, tokenVars, cacheVars, provVars>>

InitNeg ==
    /\ gn \in GnInputs
    /\ db = EmptyDb /\ cop = NoCacheOps /\ obs = ObsIdle /\ al = AlIdle /\ get = GetIdle
    /\ cacheRev = "part_005"
    /\ EmptyStores
    /\ call = [c \in 1..1 |-> CallIdle]
    /\ tok = [c \in 1..1 |-> TokIdle]
    /\ req = ReqIdle

NextNeg == GetNegativeCall

SpecNeg == InitNeg /\ [][NextNeg]_vars

\* C8: getNegative is tri-state: no row gives {hit: false, stale: false}; a row
\* gives hit: true, and stale: true exactly when now - createdAt > ttl of the
\* platform (so createdAt = now - (ttl + 1) is stale and createdAt = now is not).
C8_GetNegativeTriState ==
    gn.result.done =>
        LET ttl == NegativeTtl(gn.platform, gn.env)
            age == gn.nowv - gn.row.created_at
        IN /\ ~gn.row.present => (~gn.result.hit /\ ~gn.result.stale)
           /\ gn.row.present =>
                 /\ gn.result.hit
                 /\ gn.result.stale <=> (~ttl.nan /\ age > ttl.v)
                 /\ (~ttl.nan /\ age = ttl.v + 1) => gn.result.stale
                 /\ age = 0 => ~gn.result.stale

C8_Witness ==
    /\ gn.result.done
    /\ gn.row.present
    /\ gn.platform = "lrclib"
    /\ gn.env.NEGATIVE_CACHE_TTL_LRCLIB = Unset
    /\ gn.nowv - gn.row.created_at = DEFAULT_NEGATIVE_CACHE_TTL_LRCLIB + 1
    /\ gn.result.hit /\ gn.result.stale

-----------------------------------------------------------------------------
(* Deployment configuration and clock *)

\* The optional environment strings, as deployed here: none set.
DeployEnv ==
    [NEGATIVE_CACHE_TTL_LRCLIB |-> Unset, NEGATIVE_CACHE_TTL_MUSIXMATCH |-> Unset,
     REFETCH_THRESHOLD |-> Unset, REFETCH_CHANCE |-> Unset]

\* The clock moves in steps longer than every TTL and threshold, so that what
\* was written before a step is stale after it.
MaxTicks == 1
TickSteps == {DEFAULT_NEGATIVE_CACHE_TTL + 1}
ClockHorizon == NowBase + MaxTicks * (DEFAULT_NEGATIVE_CACHE_TTL + 1)

\* Time passes.
Tick(d) ==
    /\ now + d <= ClockHorizon
    /\ now' = now + d
    /\ UNCHANGED <<sideVars, tokenVars, negative, goCache, mxmCache, bucket, provVars>>

\* Math.random() in hundredths, and a chance in hundredths.
RandomDraws == {0, 19, 20, 99}

-----------------------------------------------------------------------------
(* Background operations registered with addAwait / awaitLists.add *)

Register(ops) == awaitLists' = awaitLists \cup ops

\* saveNegative, with the time taken when saveNegative was called:
\* INSERT ... ON CONFLICT DO UPDATE SET created_at; in the earlier revision
\* INSERT ... ON CONFLICT DO NOTHING.
SaveNegativeRowDoNothing(row, ts) == IF row.present THEN row ELSE Row(ts)
SaveNegativeRow(row, ts) ==
    IF cacheRev = "part_004" /\ row.present THEN row ELSE Row(ts)

\* The registered saveNegative reaches the database.
SaveNegativeRun(o) ==
    /\ o \in awaitLists /\ o.op = "saveNegative"
    /\ negative' = [negative EXCEPT ![o.platform] = SaveNegativeRow(@, o.ts)]
    /\ awaitLists' = awaitLists \ {o}
    /\ UNCHANGED <<sideVars, tokenVars, mxmCache, now, goCache, bucket, call>>

\* DELETE FROM negative_mappings WHERE source_platform = ?1 AND source_track_id = ?2
DeleteNegativeRow(row) == NoRow

\* The registered DELETE reaches the database.
DeleteNegativeRun(o) ==
    /\ o \in awaitLists /\ o.op = "deleteNegative"
    /\ negative' = [negative EXCEPT ![o.platform] = DeleteNegativeRow(@)]
    /\ awaitLists' = awaitLists \ {o}
    /\ UNCHANGED <<sideVars, tokenVars, mxmCache, now, goCache, bucket, call>>

\* saveGoLyrics, first await: LYRICS_BUCKET.put(r2Key, compressed). The time of
\* the row is taken after the put.
SaveGoLyricsPut(o) ==
    /\ o \in awaitLists /\ o.op = "saveGoLyrics" /\ o.step = 1
    /\ bucket' = [bucket EXCEPT ![GoKey] = o.content]
    /\ awaitLists' = (awaitLists \ {o}) \cup {[o EXCEPT !.step = 2, !.ts = now]}
    /\ UNCHANGED <<sideVars, tokenVars, mxmCache, now, negative, goCache, call>>

\* saveGoLyrics, second await: the upsert of the go_lyrics_cache row.
SaveGoLyricsRow(o) ==
    /\ o \in awaitLists /\ o.op = "saveGoLyrics" /\ o.step = 2
    /\ goCache' = [present |-> TRUE, r2_key |-> GoKey,
                   last_accessed_at |-> o.ts, last_updated_at |-> o.ts]
    /\ awaitLists' = awaitLists \ {o}
    /\ UNCHANGED <<sideVars, tokenVars, mxmCache, now, negative, bucket, call>>

\* UPDATE go_lyrics_cache SET last_accessed_at = ?1 (getGoLyrics).
AccessUpdateRun(o) ==
    /\ o \in awaitLists /\ o.op = "accessUpdate"
    /\ goCache' = IF goCache.present THEN [goCache EXCEPT !.last_accessed_at = o.ts]
                  ELSE goCache
    /\ awaitLists' = awaitLists \ {o}
    /\ UNCHANGED <<sideVars, tokenVars, mxmCache, now, negative, bucket, call>>

FormatKey(format) == IF format = "rich_sync" THEN RichKey ELSE SyncKey

\* saveMusixmatchLyrics, first await: LYRICS_BUCKET.put(r2ObjectKey, ...). The
\* time of the rows is taken after the put.
SaveMusixmatchPut(o) ==
    /\ o \in awaitLists /\ o.op = "saveMusixmatch" /\ o.step = 1
    /\ bucket' = [bucket EXCEPT ![FormatKey(o.format)] = o.content]
    /\ awaitLists' = (awaitLists \ {o}) \cup {[o EXCEPT !.step = 2, !.ts = now]}
    /\ UNCHANGED <<sideVars, tokenVars, now, negative, goCache, mxmCache, call>>

\* saveMusixmatchLyrics: the upsert of the tracks row, whose id is then read.
SaveMusixmatchTrack(o) ==
    /\ o \in awaitLists /\ o.op = "saveMusixmatch" /\ o.step = 2
    /\ mxmCache' = [mxmCache EXCEPT !.track = [present |-> TRUE, last_accessed_at |-> o.ts,
                                               last_updated_at |-> o.ts]]
    /\ awaitLists' = (awaitLists \ {o}) \cup {[o EXCEPT !.step = 3]}
    /\ UNCHANGED <<sideVars, tokenVars, now, negative, goCache, bucket, call>>

\* saveMusixmatchLyrics: the batch inserting the lyrics row and the
\* track_mappings row, each ON CONFLICT DO NOTHING.
SaveMusixmatchRows(o) ==
    /\ o \in awaitLists /\ o.op = "saveMusixmatch" /\ o.step = 3
    /\ mxmCache' = [mxmCache EXCEPT !.lyrics = @ \cup {o.format}, !.mapped = TRUE]
    /\ awaitLists' = awaitLists \ {o}
    /\ UNCHANGED <<sideVars, tokenVars, now, negative, goCache, bucket, call>>

\* UPDATE tracks SET last_accessed_at = ?1 WHERE id = ?2 (getMusixmatchLyrics).
TrackAccessUpdateRun(o) ==
    /\ o \in awaitLists /\ o.op = "accessUpdateTrack"
    /\ mxmCache' = IF mxmCache.track.present
                   THEN [mxmCache EXCEPT !.track.last_accessed_at = o.ts]
                   ELSE mxmCache
    /\ awaitLists' = awaitLists \ {o}
    /\ UNCHANGED <<sideVars, tokenVars, now, negative, goCache, bucket, call>>

\* A store operation fails: the registered promise rejects (saveGoLyrics catches
\* and resolves false); nothing is written by the failed statement.
OpFails(o) ==
    /\ o \in awaitLists /\ o.op # "fetchAndSave"
    /\ awaitLists' = awaitLists \ {o}
    /\ UNCHANGED <<sideVars, tokenVars, cacheVars, call>>

\* All background operations call c registered have settled.
OpsSettled(c) == \A o \in awaitLists : o.by # c

-----------------------------------------------------------------------------
(* Provider calls: common *)

Calls == DOMAIN call

\* The provider's code returns v: to the caller, or, when it runs as a
\* registered background fetchAndSave, which then settles.
Finish(c, v, ops) ==
    /\ call' = [call EXCEPT ![c].pc = "done", ![c].got = v,
                            ![c].ret = IF call[c].bg THEN @ ELSE "resolved",
                            ![c].val = IF call[c].bg THEN @ ELSE v]
    /\ LET me == {o \in awaitLists : o.by = c /\ o.op = "fetchAndSave"}
       IN awaitLists' = (awaitLists \ me) \cup ops

\* The provider's code throws: the caller's promise rejects, or the registered
\* fetchAndSave does.
Throw(c) ==
    /\ call' = [call EXCEPT ![c].pc = "done",
                            ![c].ret = IF call[c].bg THEN @ ELSE "rejected"]
    /\ LET me == {o \in awaitLists : o.by = c /\ o.op = "fetchAndSave"}
       IN awaitLists' = awaitLists \ me

\* if (negativeStatus.stale) addAwait(this.fetchAndSave(...))
RefetchOnAnyHit(negativeStatus) == negativeStatus.hit
StaleHitRefetches(negativeStatus) == negativeStatus.stale

\* A negative hit: return null; a stale one first starts fetchAndSave registered
\* in the background (its upstream request is issued before getLyrics returns).
AnswerNegativeHit(c, st) ==
    /\ call' = [call EXCEPT ![c].neg = [seen |-> TRUE, hit |-> st.hit, stale |-> st.stale],
                            ![c].ret = "resolved", ![c].val = NullResult,
                            ![c].pc = IF StaleHitRefetches(st) THEN "fetch" ELSE "done",
                            ![c].bg = StaleHitRefetches(st),
                            ![c].fetches = IF StaleHitRefetches(st) THEN @ + 1 ELSE @]
    /\ IF StaleHitRefetches(st)
       THEN Register({Op(c, "fetchAndSave", call[c].kind, now, Null)})
       ELSE UNCHANGED awaitLists

\* An awaited store read fails: the provider's await throws.
StoreReadThrows(c) ==
    /\ call[c].pc \in {"getNegative", "getGoLyrics", "getMusixmatchLyrics", "getObject"}
    /\ Throw(c)
    /\ UNCHANGED <<sideVars, tokenVars, cacheVars>>

-----------------------------------------------------------------------------
(* LrcLib: the line / plain-text provider *)

\* What fetch(...) and res.json() can give.
LrcResponses ==
    {[kind |-> k, synced |-> Null, plain |-> Null] :
        k \in {"transport error", "404", "500", "200 bad json"}}
    \cup {[kind |-> "200", synced |-> "lyricsA", plain |-> "lyricsA"],
          [kind |-> "200", synced |-> Null, plain |-> "lyricsB"],
          [kind |-> "200", synced |-> Null, plain |-> Null]}

\* LrcLib.getLyrics after await getNegative('lrclib', videoId).
LrcGetLyrics(c) ==
    /\ call[c].kind = "lrclib" /\ call[c].pc = "getNegative"
    /\ LET st == GetNegative(negative["lrclib"], "lrclib", now, DeployEnv)
       IN IF st.hit
          THEN AnswerNegativeHit(c, st)
          ELSE /\ call' = [call EXCEPT ![c].neg = [seen |-> TRUE, hit |-> FALSE, stale |-> FALSE],
                                       ![c].pc = "fetch", ![c].fetches = @ + 1]
               /\ UNCHANGED awaitLists
    /\ UNCHANGED <<sideVars, tokenVars, cacheVars>>

\* fetchAndSave without the write of the 404 branch.
LrcFetchAndSaveNoNegative(c, res) ==
    /\ call[c].kind = "lrclib" /\ call[c].pc = "fetch"
    /\ CASE res.kind = "200" ->
              Finish(c, LyricsResult(Null, res.synced, res.plain, Null),
                     {Op(c, "deleteNegative", "lrclib", now, Null)})
         [] OTHER -> Finish(c, NullResult, {})
    /\ UNCHANGED <<sideVars, tokenVars, cacheVars>>
\* LrcLib.fetchAndSave after await fetch(...).
LrcFetchAndSave(c, res) ==
    /\ call[c].kind = "lrclib" /\ call[c].pc = "fetch"
    /\ CASE res.kind = "404" ->
              Finish(c, NullResult, {Op(c, "saveNegative", "lrclib", now, Null)})
         [] res.kind = "200" ->
              Finish(c, LyricsResult(Null, res.synced, res.plain, Null),
                     {Op(c, "deleteNegative", "lrclib", now, Null)})
         [] OTHER -> Finish(c, NullResult, {})
    /\ UNCHANGED <<sideVars, tokenVars, cacheVars>>

-----------------------------------------------------------------------------
(* GoLyricsApi: the markup-synced provider *)

GO_DEFAULT_REFETCH_THRESHOLD == 0 * 86400
GO_DEFAULT_REFETCH_CHANCE == 100

GoResponses ==
    {[kind |-> k, ttml |-> Null] : k \in {"transport error", "404", "500"}}
    \cup [kind : {"200"}, ttml : Contents \cup {Empty}]

\* GoLyricsApi.getLrc after await getNegative('golyrics', videoId).
GoGetLrc(c) ==
    /\ call[c].kind = "golyrics" /\ call[c].pc = "getNegative"
    /\ LET st == GetNegative(negative["golyrics"], "golyrics", now, DeployEnv)
       IN IF st.hit
          THEN AnswerNegativeHit(c, st)
          ELSE /\ call' = [call EXCEPT ![c].neg = [seen |-> TRUE, hit |-> FALSE, stale |-> FALSE],
                                       ![c].pc = "getGoLyrics"]
               /\ UNCHANGED awaitLists
    /\ UNCHANGED <<sideVars, tokenVars, cacheVars>>

\* getGoLyrics after the row is read: no row is a miss (fetchAndSave is awaited);
\* otherwise the access time is refreshed when older than a day and the object
\* is asked for.
GoGetGoLyricsRow(c) ==
    /\ call[c].kind = "golyrics" /\ call[c].pc = "getGoLyrics"
    /\ IF ~goCache.present
       THEN /\ call' = [call EXCEPT ![c].pc = "fetch", ![c].fetches = @ + 1]
            /\ UNCHANGED awaitLists
       ELSE /\ call' = [call EXCEPT ![c].pc = "getObject",
                           ![c].lastUpdatedAt =
                               IF goCache.last_updated_at # 0 THEN goCache.last_updated_at
                               ELSE goCache.last_accessed_at]
            /\ IF now - goCache.last_accessed_at > 86400
               THEN Register({Op(c, "accessUpdate", "golyrics", now, Null)})
               ELSE UNCHANGED awaitLists
    /\ UNCHANGED <<sideVars, tokenVars, cacheVars>>

\* shouldRefetch set whatever the age of the entry.
GoRefetchAlways(lastUpdatedAt, nowv, draw) == TRUE
\* now - cachedData.lastUpdatedAt > threshold, then Math.random() < chance.
GoShouldRefetch(lastUpdatedAt, nowv, draw) ==
    /\ nowv - lastUpdatedAt > GO_DEFAULT_REFETCH_THRESHOLD
    /\ draw < GO_DEFAULT_REFETCH_CHANCE

\* getGoLyrics after LYRICS_BUCKET.get, and getLrc's use of cachedData: a missing
\* object is a miss; otherwise the cached ttml is returned, after starting a
\* registered fetchAndSave when the entry is selected for refetch.
GoUseCache(c, draw) ==
    /\ call[c].kind = "golyrics" /\ call[c].pc = "getObject"
    /\ IF bucket[GoKey] = NoBlob
       THEN /\ call' = [call EXCEPT ![c].pc = "fetch", ![c].fetches = @ + 1]
            /\ UNCHANGED awaitLists
       ELSE LET refetch == GoShouldRefetch(call[c].lastUpdatedAt, now, draw)
            IN /\ call' = [call EXCEPT ![c].ret = "resolved",
                              ![c].val = LyricsResult(Null, Null, Null, bucket[GoKey]),
                              ![c].pc = IF refetch THEN "fetch" ELSE "done",
                              ![c].bg = refetch,
                              ![c].fetches = IF refetch THEN @ + 1 ELSE @]
               /\ IF refetch
                  THEN Register({Op(c, "fetchAndSave", "golyrics", now, Null)})
                  ELSE UNCHANGED awaitLists
    /\ UNCHANGED <<sideVars, tokenVars, cacheVars>>

\* GoLyricsApi.fetchAndSave after await this._get(...).
GoFetchAndSave(c, res) ==
    /\ call[c].kind = "golyrics" /\ call[c].pc = "fetch"
    /\ CASE res.kind = "transport error" -> Throw(c)
         [] res.kind = "404" ->
              Finish(c, NullResult, {Op(c, "saveNegative", "golyrics", now, Null)})
         [] res.kind = "500" -> Finish(c, NullResult, {})
         [] res.kind = "200" /\ res.ttml # Empty ->
              Finish(c, LyricsResult(Null, Null, Null, res.ttml),
                     {Op(c, "saveGoLyrics", "youtube_music", now, res.ttml),
                      Op(c, "deleteNegative", "golyrics", now, Null)})
         [] OTHER ->
              Finish(c, LyricsResult(Null, Null, Null, res.ttml),
                     {Op(c, "saveNegative", "golyrics", now, Null)})
    /\ UNCHANGED <<sideVars, tokenVars, cacheVars>>

-----------------------------------------------------------------------------
(* Musixmatch: the session token of the word-level provider *)

tokenRetryMax == 3

\* data.message.body.user_token of an answer that carries none.
Undefined == "undefined"
UserTokens == {"usertokenA"}

\* The cookies a Set-Cookie header of the upstream carries.
SessionCookies == {"cookieA"}

\* What token.get can give: no usable answer (fetch throws, too many
\* redirects, no body, not JSON), status_code 401, another status without
\* user_token, 200 without user_token, 200 with user_token.
TokenResponses ==
    {[kind |-> k, user_token |-> Undefined, setCookie |-> {}] :
        k \in {"transport error", "401", "500", "200 no user_token"}}
    \cup [kind : {"200"}, user_token : UserTokens, setCookie : {SessionCookies}]

\* getToken up to its first await: the guard
\* token === null && tokenRetryCount < tokenRetryMax decides between asking
\* for a token, throwing 'Failed to get token' and returning.
GetTokenCall(r) ==
    /\ tok[r].pc = "idle"
    /\ \A d \in DOMAIN tok : d < r => tok[d].pc # "idle"
    /\ tok' = [tok EXCEPT ![r] =
                  IF token = Null /\ tokenRetryCount < tokenRetryMax
                  THEN [@ EXCEPT !.pc = "fetch", !.promise = "pending",
                                 !.after401 = resetBy401]
                  ELSE IF token = Null
                  THEN [@ EXCEPT !.pc = "done", !.promise = "rejected"]
                  ELSE [@ EXCEPT !.pc = "done", !.promise = "fulfilled"]]
    /\ resetBy401' = FALSE
    /\ UNCHANGED <<sideVars, cacheVars, provVars, token, tokenRetryCount>>

\* The answers _get stores: response.status === 200. The answers with a
\* status_code of 200 in the body have it; of the others the HTTP status is
\* the upstream's choice and they are taken as not stored.
Stored(res) == res.kind \in {"200", "200 no user_token"}

\* getToken after await this._get('token.get') and await response.json(), when
\* cache.match(cacheUrl) found nothing and the upstream was asked; _get has
\* pushed the answer's Set-Cookie cookies onto this.cookies and put an answer
\* of status 200 into the cache under cacheUrl.
GetTokenResponse(r, res) ==
    /\ tok[r].pc = "fetch"
    /\ IF res.kind = "transport error"
       THEN /\ tok' = [tok EXCEPT ![r].pc = "done", ![r].promise = "rejected",
                                  ![r].asked = TRUE, ![r].after401 = FALSE]
            /\ UNCHANGED <<token, tokenRetryCount, resetBy401>>
       ELSE /\ tokenRetryCount' = tokenRetryCount + 1
            /\ IF res.kind = "401"
               THEN /\ tok' = [tok EXCEPT ![r].pc = "done", ![r].promise = "rejected",
                                          ![r].asked = TRUE, ![r].after401 = FALSE,
                                          ![r].cookies = @ \cup res.setCookie]
                    /\ UNCHANGED <<token, resetBy401>>
               ELSE /\ tok' = [tok EXCEPT ![r].pc = "done", ![r].promise = "fulfilled",
                                          ![r].asked = TRUE, ![r].after401 = FALSE,
                                          ![r].cookies = @ \cup res.setCookie]
                    /\ token' = res.user_token
                    /\ resetBy401' = FALSE
    /\ db' = IF Stored(res) THEN [db EXCEPT !.responses = {res}] ELSE db
    /\ UNCHANGED <<gn, al, get, cacheRev, req, cop, obs, cacheVars, provVars>>

\* getToken after await this._get('token.get') and await response.json(), when
\* cache.match(cacheUrl) found a stored answer: _get returns it without asking
\* the upstream, so that no cookie is received and nothing is stored.
GetTokenCached(r) ==
    /\ tok[r].pc = "fetch"
    /\ \E res \in db.responses :
          /\ tok' = [tok EXCEPT ![r].pc = "done", ![r].promise = "fulfilled",
                                ![r].after401 = FALSE]
          /\ token' = res.user_token
    /\ tokenRetryCount' = tokenRetryCount + 1
    /\ resetBy401' = FALSE
    /\ UNCHANGED <<sideVars, cacheVars, provVars>>

-----------------------------------------------------------------------------
(* Musixmatch: the word-level provider *)

MXM_DEFAULT_REFETCH_THRESHOLD == 7 * 86400
MXM_DEFAULT_REFETCH_CHANCE == 20

\* if (isNegative) on what await getNegative('youtube_music', videoId) gave: the
\* boolean of the revision of CacheService that getLrc is written against, or
\* the {hit, stale} object of the later one, which is truthy whatever it holds.
IsNegativeTruthy(row) ==
    IF cacheRev = "part_005" THEN TRUE ELSE row.present

\* getLrc after await getNegative.
MxmGetLrc(c) ==
    /\ call[c].kind = "musixmatch" /\ call[c].pc = "getNegative"
    /\ IF IsNegativeTruthy(negative["youtube_music"])
       THEN /\ call' = [call EXCEPT ![c].neg = [seen |-> TRUE, hit |-> TRUE, stale |-> FALSE],
                                    ![c].pc = "done", ![c].ret = "resolved",
                                    ![c].val = NullResult]
       ELSE /\ call' = [call EXCEPT ![c].neg = [seen |-> TRUE, hit |-> FALSE, stale |-> FALSE],
                                    ![c].pc = "getMusixmatchLyrics"]
    /\ UNCHANGED <<sideVars, tokenVars, cacheVars, awaitLists>>

\* getMusixmatchLyrics after the rows are read: no row of the mapping is a miss;
\* otherwise the access time is refreshed when older than a day and the objects
\* of the rows are asked for.
MxmGetMusixmatchLyricsRows(c) ==
    /\ call[c].kind = "musixmatch" /\ call[c].pc = "getMusixmatchLyrics"
    /\ IF ~mxmCache.mapped
       THEN /\ call' = [call EXCEPT ![c].pc = "awaitToken", ![c].miss = TRUE]
            /\ UNCHANGED awaitLists
       ELSE /\ call' = [call EXCEPT ![c].pc = "getObject", ![c].rows = mxmCache.lyrics,
                           ![c].lastUpdatedAt =
                               IF mxmCache.track.last_updated_at # 0
                               THEN mxmCache.track.last_updated_at
                               ELSE mxmCache.track.last_accessed_at]
            /\ IF now - mxmCache.track.last_accessed_at > 86400
               THEN Register({Op(c, "accessUpdateTrack", "youtube_music", now, Null)})
               ELSE UNCHANGED awaitLists
    /\ UNCHANGED <<sideVars, tokenVars, cacheVars>>

\* forceRefetch decided by the draw alone, whatever the age of the entry.
MxmRefetchOnDraw(lastUpdatedAt, nowv, draw) == draw < MXM_DEFAULT_REFETCH_CHANCE
\* now - cachedData.lastUpdatedAt > threshold, then Math.random() < chance.
MxmForceRefetch(lastUpdatedAt, nowv, draw) ==
    /\ nowv - lastUpdatedAt > MXM_DEFAULT_REFETCH_THRESHOLD
    /\ draw < MXM_DEFAULT_REFETCH_CHANCE

\* The content of the cached lyric of a format: a row whose object is missing
\* gives no lyric.
CachedLyric(rows, format, key) ==
    IF format \in rows /\ bucket[key] # NoBlob THEN bucket[key] ELSE Null

\* getMusixmatchLyrics after the objects are read, and getLrc's use of
\* cachedData: answered from the cache unless the entry is selected for
\* refetch, in which case getLrc goes on to the upstream itself.
MxmUseCache(c, draw) ==
    /\ call[c].kind = "musixmatch" /\ call[c].pc = "getObject"
    /\ IF MxmForceRefetch(call[c].lastUpdatedAt, now, draw)
       THEN /\ call' = [call EXCEPT ![c].pc = "awaitToken"]
            /\ UNCHANGED awaitLists
       ELSE Finish(c, LyricsResult(CachedLyric(call[c].rows, "rich_sync", RichKey),
                                   CachedLyric(call[c].rows, "normal_sync", SyncKey),
                                   Null, Null), {})
    /\ UNCHANGED <<sideVars, tokenVars, cacheVars>>

\* getLrc after await tokenPromise: a rejected tokenPromise is rethrown; no token
\* returns null; otherwise matcher.track.get is requested.
MxmAfterToken(c) ==
    /\ call[c].kind = "musixmatch" /\ call[c].pc = "awaitToken"
    /\ tok[c].promise # "pending"
    /\ IF tok[c].promise = "rejected" THEN Throw(c)
       ELSE IF token = Null THEN Finish(c, NullResult, {})
       ELSE /\ call' = [call EXCEPT ![c].pc = "matcher", ![c].fetches = @ + 1]
            /\ UNCHANGED awaitLists
    /\ UNCHANGED <<sideVars, tokenVars, cacheVars>>

\* What matcher.track.get can give; a 200 carries the capability flags.
MatcherResponses ==
    {[kind |-> k, has |-> "none"] : k \in {"transport error", "401", "404", "500"}}
    \cup [kind : {"200"}, has : {"richsync", "subtitles", "none"}]

\* A registered saveMusixmatchLyrics of one format.
MxmSaveOp(c, format, content) ==
    [Op(c, "saveMusixmatch", "youtube_music", now, content) EXCEPT !.format = format]

\* getLrc from if (result) on: a result is saved per format that is truthy, a
\* null result saves a negative entry; the result is returned.
MxmResult(c, result) ==
    Finish(c, result,
           IF result.isNull
           THEN {Op(c, "saveNegative", "youtube_music", now, Null)}
           ELSE (IF result.richSynced \notin {Null, Empty}
                 THEN {MxmSaveOp(c, "rich_sync", result.richSynced)} ELSE {})
                \cup (IF result.synced \notin {Null, Empty}
                      THEN {MxmSaveOp(c, "normal_sync", result.synced)} ELSE {}))

\* getLrc after await this._get('matcher.track.get') and await response.json().
\* With has_richsync, getLrcWordByWord requests track.subtitle.get and
\* track.richsync.get; with has_subtitles only, getLrcById requests
\* track.subtitle.get.
MxmMatcher(c, res) ==
    /\ call[c].kind = "musixmatch" /\ call[c].pc = "matcher"
    /\ CASE res.kind = "transport error" ->
              Throw(c) /\ UNCHANGED <<token, resetBy401>>
         [] res.kind = "401" ->
              /\ token' = Null
              /\ resetBy401' = (token \in UserTokens \/ resetBy401)
              /\ call' = [call EXCEPT ![c].pc = "done", ![c].ret = "resolved",
                                      ![c].val = NullResult, ![c].saw401 = "matcher"]
              /\ UNCHANGED awaitLists
         [] res.kind = "404" ->
              /\ Finish(c, NullResult, {Op(c, "saveNegative", "youtube_music", now, Null)})
              /\ UNCHANGED <<token, resetBy401>>
         [] res.kind = "500" ->
              Finish(c, NullResult, {}) /\ UNCHANGED <<token, resetBy401>>
         [] res.kind = "200" /\ res.has = "richsync" ->
              /\ call' = [call EXCEPT ![c].pc = "richsync", ![c].sub = "pending",
                                      ![c].fetches = @ + 2]
              /\ UNCHANGED <<awaitLists, token, resetBy401>>
         [] res.kind = "200" /\ res.has = "subtitles" ->
              /\ call' = [call EXCEPT ![c].pc = "subtitle", ![c].sub = "pending",
                                      ![c].fetches = @ + 1]
              /\ UNCHANGED <<awaitLists, token, resetBy401>>
         [] OTHER ->
              MxmResult(c, NullResult) /\ UNCHANGED <<token, resetBy401>>
    /\ UNCHANGED <<sideVars, cacheVars, tokenRetryCount, tok>>

\* What track.subtitle.get can give: a 200 with or without a subtitle_body.
SubtitleResponses ==
    {[kind |-> k, subtitle_body |-> Null] : k \in {"transport error", "401", "200"}}
    \cup [kind : {"200"}, subtitle_body : {"lyricsA"}]

\* getLrcById after await this._get('track.subtitle.get'): its promise settles.
MxmGetLrcById(c, res) ==
    /\ call[c].kind = "musixmatch" /\ call[c].sub = "pending"
    /\ call' = [call EXCEPT
                  ![c].sub = IF res.kind = "transport error" THEN "rejected" ELSE "fulfilled",
                  ![c].subVal = res.subtitle_body,
                  ![c].saw401 = IF res.kind = "401" THEN "subtitle" ELSE @]
    /\ UNCHANGED <<sideVars, tokenVars, cacheVars, awaitLists>>

\* What track.richsync.get can give.
RichsyncResponses ==
    {[kind |-> k, lrcStr |-> Null] : k \in {"transport error", "401", "404", "500"}}
    \cup [kind : {"200"}, lrcStr : {"richA"}]

\* getLrcWordByWord after await this._get('track.richsync.get') and
\* await response.json(): an answer that is not a 200 returns null.
MxmRichsync(c, res) ==
    /\ call[c].kind = "musixmatch" /\ call[c].pc = "richsync"
    /\ CASE res.kind = "transport error" -> Throw(c)
         [] res.kind = "200" ->
              /\ call' = [call EXCEPT ![c].pc = "basicLrc", ![c].rich = res.lrcStr]
              /\ UNCHANGED awaitLists
         [] OTHER ->
              /\ LET ops == {Op(c, "saveNegative", "youtube_music", now, Null)}
                     me == {o \in awaitLists : o.by = c /\ o.op = "fetchAndSave"}
                 IN /\ call' = [call EXCEPT ![c].pc = "done", ![c].ret = "resolved",
                                   ![c].val = NullResult,
                                   ![c].saw401 = IF res.kind = "401" THEN "richsync" ELSE @]
                    /\ awaitLists' = (awaitLists \ me) \cup ops
    /\ UNCHANGED <<sideVars, tokenVars, cacheVars>>

\* What await basicLrcPromise gives: lrcLyrics is LrcLib's answer raced against
\* sleep(5500).
BasicLrcOutcomes == {"synced", "none", "rejected"}

\* The alignment: variance < 1.5 accepts; a higher variance, a NaN variance or
\* more than 5000 tokens rejects.
AlignOutcomes == {"accept", "reject"}

\* [offset:...] put before lrcStr.
WithOffset(lrcStr) == "[offset]" \o lrcStr

\* getLrcWordByWord after await basicLrcPromise: without a synced transcript the
\* word-level text is returned as is; with one the alignment runs and the
\* provider's own subtitle is awaited.
MxmBasicLrc(c, basic, align) ==
    /\ call[c].kind = "musixmatch" /\ call[c].pc = "basicLrc"
    /\ CASE basic = "rejected" -> Throw(c)
         [] basic = "none" -> MxmResult(c, LyricsResult(call[c].rich, Null, Null, Null))
         [] OTHER ->
              /\ call' = [call EXCEPT ![c].pc = "awaitSubtitle", ![c].align = align]
              /\ UNCHANGED awaitLists
    /\ UNCHANGED <<sideVars, tokenVars, cacheVars>>

\* await this.getLrcById(trackId) in getLrc, or await musixmatchBasicLyrics in
\* getLrcWordByWord, once that promise has settled.
MxmAfterSubtitle(c) ==
    /\ call[c].kind = "musixmatch" /\ call[c].pc \in {"subtitle", "awaitSubtitle"}
    /\ call[c].sub # "pending"
    /\ IF call[c].sub = "rejected" THEN Throw(c)
       ELSE IF call[c].pc = "subtitle"
       THEN MxmResult(c, IF call[c].subVal = Null THEN NullResult
                         ELSE LyricsResult(Null, call[c].subVal, Null, Null))
       ELSE MxmResult(c, LyricsResult(IF call[c].align = "accept"
                                      THEN WithOffset(call[c].rich) ELSE Null,
                                      call[c].subVal, Null, Null))
    /\ UNCHANGED <<sideVars, tokenVars, cacheVars>>

-----------------------------------------------------------------------------
(* SpecProv: concurrent calls of the line and markup-synced providers *)

NumCalls == 2

\* A client (the orchestrator of some request) calls a provider. Calls are taken
\* in order of their index. The two providers share no state, so a behaviour
\* follows the calls of one of them.
ProvCall(c, k) ==
    /\ call[c].kind = "none"
    /\ \A d \in Calls : d < c => call[d].kind = k
    /\ call' = [call EXCEPT ![c].kind = k, ![c].pc = "getNegative"]
    /\ UNCHANGED <<sideVars, tokenVars, cacheVars, awaitLists>>

InitProv ==
    /\ gn = GnDefault
    /\ db = EmptyDb /\ cop = NoCacheOps /\ obs = ObsIdle /\ al = AlIdle /\ get = GetIdle
    /\ cacheRev = "part_005"
    /\ EmptyStores
    /\ call = [c \in 1..NumCalls |-> CallIdle]
    /\ tok = [c \in 1..NumCalls |-> TokIdle]
    /\ req = ReqIdle

NextProv ==
    \/ \E d \in TickSteps : Tick(d)
    \/ \E c \in Calls, k \in {"lrclib", "golyrics"} : ProvCall(c, k)
    \/ \E c \in Calls : StoreReadThrows(c)
    \/ \E c \in Calls : LrcGetLyrics(c)
    \/ \E c \in Calls, res \in LrcResponses : LrcFetchAndSave(c, res)
    \/ \E c \in Calls : GoGetLrc(c)
    \/ \E c \in Calls : GoGetGoLyricsRow(c)
    \/ \E c \in Calls, draw \in RandomDraws : GoUseCache(c, draw)
    \/ \E c \in Calls, res \in GoResponses : GoFetchAndSave(c, res)
    \/ \E o \in awaitLists : SaveNegativeRun(o)
    \/ \E o \in awaitLists : DeleteNegativeRun(o)
    \/ \E o \in awaitLists : SaveGoLyricsPut(o)
    \/ \E o \in awaitLists : SaveGoLyricsRow(o)
    \/ \E o \in awaitLists : AccessUpdateRun(o)
    \/ \E o \in awaitLists : OpFails(o)

SpecProv == InitProv /\ [][NextProv]_vars


\* C9: in the line and markup-synced providers a call that reads a negative hit
\* is answered with none at once, while any upstream request it started is
\* still outstanding; it starts an upstream refetch, registered in the
\* background, exactly when the entry read was stale.
C9_NegativeHitAnswer ==
    \A c \in Calls :
        (call[c].kind \in {"lrclib", "golyrics"} /\ call[c].neg.seen /\ call[c].neg.hit) =>
            /\ call[c].ret = "resolved" /\ call[c].val = NullResult
            /\ (call[c].fetches > 0) <=> call[c].neg.stale
            /\ (call[c].fetches > 0) => call[c].bg
            /\ call[c].fetches <= 1

\* A stale hit answered with none while its background refetch is outstanding.
C9_Witness ==
    \E c \in Calls :
        /\ call[c].kind = "golyrics"
        /\ call[c].neg.hit /\ call[c].neg.stale
        /\ call[c].ret = "resolved" /\ call[c].val = NullResult
        /\ call[c].pc = "fetch" /\ call[c].bg
        /\ \E o \in awaitLists : o.by = c /\ o.op = "fetchAndSave"

\* The step of fetchAndSave of call c that took the upstream's 404.
Lrc404(c) == \E res \in LrcResponses : res.kind = "404" /\ LrcFetchAndSave(c, res)
Go404(c) == \E res \in GoResponses : res.kind = "404" /\ GoFetchAndSave(c, res)

\* In the next state fetchAndSave of call c has returned none (to the caller
\* when the caller awaits it) and has issued saveNegative for its platform.
NoneAndNegativeIssued(c) ==
    /\ call'[c].pc = "done" /\ call'[c].got = NullResult
    /\ ~call[c].bg => (call'[c].ret = "resolved" /\ call'[c].val = NullResult)
    /\ \E o \in awaitLists' \ awaitLists :
           o.by = c /\ o.op = "saveNegative" /\ o.platform = call[c].kind /\ o.ts = now

\* C11: when the upstream answers 404 to the line or the markup-synced
\* provider, fetchAndSave returns none and issues the write of the negative
\* entry of that provider and identifier; the write, when it reaches the
\* database, leaves the entry there with the time of the 404.
C11_AbsenceNegativeCached ==
    [][/\ \A c \in Calls : (Lrc404(c) \/ Go404(c)) => NoneAndNegativeIssued(c)
       /\ \A o \in awaitLists : SaveNegativeRun(o) => negative'[o.platform] = Row(o.ts)]_vars

\* A 404 answered with none, and its negative entry written.
C11_Witness ==
    \E c \in Calls :
        /\ call[c].kind = "lrclib" /\ call[c].pc = "done" /\ ~call[c].neg.hit
        /\ call[c].ret = "resolved" /\ call[c].val = NullResult
        /\ negative["lrclib"].present
        /\ OpsSettled(c)

\* The step of getLrc of call c in which getGoLyrics gave cachedData.
GoCacheHit(c, draw) == GoUseCache(c, draw) /\ bucket[GoKey] # NoBlob

\* Call c starts a registered fetchAndSave in this step.
StartsBackgroundFetch(c) ==
    /\ call'[c].bg /\ call'[c].pc = "fetch"
    /\ \E o \in awaitLists' \ awaitLists : o.by = c /\ o.op = "fetchAndSave"

-----------------------------------------------------------------------------
(* The word-level provider is run in SpecToken and SpecWord against the       *)
(* revision of CacheService of src/unnamed/part_004, whose getNegative        *)
(* answers with the boolean that getLrc tests, so that getLrc goes on past    *)
(* the negative check. Spec runs it against the later revision.               *)

\* A request reaches this.musixmatch.getLrc(...), after it called getToken().
MxmCall(c) ==
    /\ call[c].kind = "none"
    /\ tok[c].pc # "idle"
    /\ call' = [call EXCEPT ![c].kind = "musixmatch", ![c].pc = "getNegative"]
    /\ UNCHANGED <<sideVars, tokenVars, cacheVars, awaitLists>>

ReturnsAtNegativeCheck(c) ==
    /\ call[c].kind = "musixmatch" /\ call[c].pc = "getNegative"
    /\ call'[c].pc = "done" /\ call'[c].ret = "resolved" /\ call'[c].val = NullResult

\* C36: Musixmatch.getLrc returns null at the negative check only when
\* getNegative reports a hit for the video; with no negative entry it goes on
\* to the positive cache and the upstream match.
C36_NegativeCheckOnlyOnHit ==
    [][\A c \in Calls :
          ReturnsAtNegativeCheck(c) =>
              GetNegative(negative["youtube_music"], "youtube_music", now, DeployEnv).hit]_vars

\* No call is in progress and nothing registered with addAwait is left to run.
BackgroundCompleted ==
    /\ awaitLists = {}
    /\ \A c \in Calls : call[c].pc \in {"idle", "done"}

\* C38: once every call and every registered operation has completed, the
\* videoId does not have both cached ttml in go_lyrics_cache and a negative
\* entry of 'golyrics', which would hide the ttml from the reads that follow.
C38_NoPositiveBehindNegative ==
    BackgroundCompleted =>
        ~(/\ goCache.present /\ bucket[GoKey] # NoBlob
          /\ negative["golyrics"].present)

-----------------------------------------------------------------------------
(* SpecToken: a sequence of requests, some of them concurrent, for a track    *)
(* the upstream has no lyrics for: getToken and getLrc up to the answer of    *)
(* matcher.track.get.                                                          *)

NumReq == 4
MaxInFlight == 2

\* Requests that called getToken and whose getToken or getLrc has not finished.
InFlight ==
    {r \in Calls : tok[r].pc # "idle" /\ ~(tok[r].pc = "done" /\ call[r].pc = "done")}

\* A request arrives: LyricsService.getLyrics calls getToken().
Arrive(r) ==
    /\ Cardinality(InFlight) < MaxInFlight
    /\ GetTokenCall(r)

NoLyricsMatcherResponses == {res \in MatcherResponses : res.has = "none"}

InitToken ==
    /\ gn = GnDefault
    /\ db = EmptyDb /\ cop = NoCacheOps /\ obs = ObsIdle /\ al = AlIdle /\ get = GetIdle
    /\ cacheRev = "part_004"
    /\ EmptyStores
    /\ call = [c \in 1..NumReq |-> CallIdle]
    /\ tok = [c \in 1..NumReq |-> TokIdle]
    /\ req = ReqIdle

NextToken ==
    \/ \E r \in Calls : Arrive(r)
    \/ \E r \in Calls, res \in TokenResponses : GetTokenResponse(r, res)
    \/ \E r \in Calls : GetTokenCached(r)
    \/ \E c \in Calls : MxmCall(c)
    \/ \E c \in Calls : StoreReadThrows(c)
    \/ \E c \in Calls : MxmGetLrc(c)
    \/ \E c \in Calls : MxmGetMusixmatchLyricsRows(c)
    \/ \E c \in Calls : MxmAfterToken(c)
    \/ \E c \in Calls, res \in NoLyricsMatcherResponses : MxmMatcher(c, res)
    \/ \E o \in awaitLists : SaveNegativeRun(o)
    \/ \E o \in awaitLists : OpFails(o)

SpecToken == InitToken /\ [][NextToken]_vars

\* The token states: Valid holds a user token; Invalid holds none with the retry
\* limit reached.
Valid == token \in UserTokens
Invalid == token = Null /\ tokenRetryCount >= tokenRetryMax

\* C3: the token state Invalid is terminal: no step from a state that is Invalid
\* makes the token Valid, under every interleaving of concurrent requests.
C3_InvalidTerminal == [][Invalid => ~Valid']_vars

\* C4: the first request to call getToken after a 401 answer reset a user token
\* to null starts a new acquisition, however many acquisitions came before.
C4_ResetReacquires ==
    [][\A r \in Calls :
          (tok[r].pc = "idle" /\ tok'[r].pc # "idle" /\ token = Null /\ resetBy401)
              => tok'[r].pc = "fetch"]_vars

\* C6: the token becomes non-null only by a token answer that is a success: a
\* step that changes the token to a value other than null sets it to the
\* user_token of a 200 answer.
C6_ValidOnlyOnSuccess ==
    [][(token' # token /\ token' # Null) => token' \in UserTokens]_vars

\* C7: getLrc on a cache miss, resumed from await tokenPromise while no token is
\* held and the acquisition failed or was refused, returns null without
\* throwing and requests nothing from the upstream.
C7_NoTokenSkips ==
    [][\A c \in Calls :
          (/\ call[c].pc = "awaitToken" /\ call'[c].pc # "awaitToken"
           /\ call[c].miss /\ token = Null /\ tok[c].promise = "rejected")
              => (/\ call'[c].pc = "done"
                  /\ call'[c].ret = "resolved" /\ call'[c].val = NullResult
                  /\ call'[c].fetches = call[c].fetches)]_vars

\* headers['Cookie'] of an upstream request made by request r: the cookies of
\* its own Musixmatch instance.
CookieHeader(r) == tok[r].cookies

\* Request r calls _get in this step, for token.get or matcher.track.get; the
\* upstream is asked when the response cache has no answer.
UpstreamCall(r) ==
    \/ tok[r].pc = "idle" /\ tok'[r].pc = "fetch"
    \/ call[r].pc = "awaitToken" /\ call'[r].pc = "matcher"

\* Request d has finished.
Finished(d) == tok[d].pc = "done" /\ call[d].pc = "done"

\* C29: the token and the cookies of the word-level provider outlive the
\* request: an upstream request of a later request carries every cookie an
\* earlier, finished request received, and a request arriving while a token
\* acquired earlier is held uses it without asking for another.
C29_SessionIsProcessWide ==
    [][\A r \in Calls :
          /\ UpstreamCall(r) =>
                 \A d \in Calls : (d < r /\ Finished(d)) => tok[d].cookies \subseteq CookieHeader(r)
          /\ (tok[r].pc = "idle" /\ tok'[r].pc # "idle" /\ Valid) =>
                 (tok'[r].pc = "done" /\ tok'[r].promise = "fulfilled")]_vars

\* C28: a failure of a store operation during a provider call is swallowed:
\* a read that fails leaves the call going on as on a miss, its promise not
\* rejected, and a write that fails changes no call's answer.
C28_CacheFailuresSwallowed ==
    [][/\ \A c \in Calls :
              StoreReadThrows(c) => (call'[c].ret # "rejected" /\ call'[c].pc # "done")
       /\ \A o \in awaitLists :
              OpFails(o) => \A c \in Calls : (call'[c].ret = call[c].ret
                                               /\ call'[c].val = call[c].val)]_vars

\* The token.get requests the upstream has been asked so far; each was made by
\* a getToken that found no token held.
TokenAttempts == Cardinality({r \in DOMAIN tok : tok[r].asked})

\* C39: however the requests calling getToken interleave, the upstream is
\* asked for a token at most tokenRetryMax times.
C39_TokenAttemptsBounded == TokenAttempts <= tokenRetryMax

\* Request r's getToken is answered in this step from the response cache.
AnsweredFromCache(r) ==
    /\ tok[r].pc = "fetch" /\ tok'[r].pc = "done" /\ ~tok'[r].asked

\* C40: a getToken that asks for a token because a 401 answer reset the one
\* held is answered by the upstream, never from the response cache.
C40_ReacquisitionIsFresh ==
    [][\A r \in Calls : tok[r].after401 => ~AnsweredFromCache(r)]_vars

-----------------------------------------------------------------------------
(* SpecWord: two concurrent requests using the word-level provider, over      *)
(* stores that are empty or hold lyrics cached longer ago than the refetch    *)
(* threshold, with their objects or with the objects gone from the bucket.    *)

NumWordReq == 2

\* Rows and objects left by a request served MXM_DEFAULT_REFETCH_THRESHOLD + 1
\* seconds ago.
OldSavedAt == NowBase - (MXM_DEFAULT_REFETCH_THRESHOLD + 1)

OldMxmRows ==
    [track |-> [present |-> TRUE, last_accessed_at |-> OldSavedAt,
                last_updated_at |-> OldSavedAt],
     lyrics |-> {"rich_sync", "normal_sync"}, mapped |-> TRUE]

\* The token.get answers of SpecWord: no usable answer, status_code 401, and
\* 200 with a user_token.
WordTokenResponses ==
    {res \in TokenResponses : res.kind \in {"transport error", "401", "200"}}

InitWord ==
    /\ gn = GnDefault
    /\ db = EmptyDb /\ cop = NoCacheOps /\ obs = ObsIdle /\ al = AlIdle /\ get = GetIdle
    /\ cacheRev = "part_004"
    /\ now = NowBase
    /\ negative = [p \in NegPlatforms |-> NoRow]
    /\ goCache = NoGoRow
    /\ \/ /\ mxmCache = NoMxmRows
          /\ bucket = [k \in BucketKeys |-> NoBlob]
       \/ /\ mxmCache = OldMxmRows
          /\ bucket = [k \in BucketKeys |->
                          IF k = RichKey THEN "richB" ELSE IF k = SyncKey THEN "lyricsB"
                          ELSE NoBlob]
       \/ /\ mxmCache = OldMxmRows
          /\ bucket = [k \in BucketKeys |-> NoBlob]
    /\ awaitLists = {}
    /\ token = Null
    /\ tokenRetryCount = 0
    /\ resetBy401 = FALSE
    /\ call = [c \in 1..NumWordReq |-> CallIdle]
    /\ tok = [c \in 1..NumWordReq |-> TokIdle]
    /\ req = ReqIdle

NextWord ==
    \/ \E r \in Calls : GetTokenCall(r)
    \/ \E r \in Calls, res \in WordTokenResponses : GetTokenResponse(r, res)
    \/ \E r \in Calls : GetTokenCached(r)
    \/ \E c \in Calls : MxmCall(c)
    \/ \E c \in Calls : StoreReadThrows(c)
    \/ \E c \in Calls : MxmGetLrc(c)
    \/ \E c \in Calls : MxmGetMusixmatchLyricsRows(c)
    \/ \E c \in Calls, draw \in RandomDraws : MxmUseCache(c, draw)
    \/ \E c \in Calls : MxmAfterToken(c)
    \/ \E c \in Calls, res \in MatcherResponses : MxmMatcher(c, res)
    \/ \E c \in Calls, res \in SubtitleResponses : MxmGetLrcById(c, res)
    \/ \E c \in Calls, res \in RichsyncResponses : MxmRichsync(c, res)
    \/ \E c \in Calls, basic \in BasicLrcOutcomes, align \in AlignOutcomes :
          MxmBasicLrc(c, basic, align)
    \/ \E c \in Calls : MxmAfterSubtitle(c)
    \/ \E o \in awaitLists : SaveNegativeRun(o)
    \/ \E o \in awaitLists : SaveMusixmatchPut(o)
    \/ \E o \in awaitLists : SaveMusixmatchTrack(o)
    \/ \E o \in awaitLists : SaveMusixmatchRows(o)
    \/ \E o \in awaitLists : TrackAccessUpdateRun(o)
    \/ \E o \in awaitLists : OpFails(o)

SpecWord == InitWord /\ [][NextWord]_vars

\* C5: a 401 answer of any authenticated upstream call (matcher.track.get,
\* track.richsync.get, track.subtitle.get) leaves the token null.
C5_AuthRejectionResetsToken ==
    [][\A c \in Calls :
          (call[c].saw401 = "none" /\ call'[c].saw401 # "none") => token' = Null]_vars

\* The platform under which a provider keeps its negative entries.
NegativePlatformOf(kind) ==
    CASE kind = "lrclib" -> "lrclib"
      [] kind = "golyrics" -> "golyrics"
      [] OTHER -> "youtube_music"

HasContent(v) ==
    /\ ~v.isNull
    /\ \E f \in {"richSynced", "synced", "unsynced", "ttml"} : v[f] \notin {Null, Empty}

\* What the call obtained is what the provider's positive cache holds (the line
\* provider keeps none).
Persisted(c) ==
    CASE call[c].kind = "musixmatch" ->
            /\ mxmCache.mapped /\ mxmCache.track.last_updated_at >= NowBase
            /\ call[c].got.richSynced \notin {Null, Empty} =>
                  ("rich_sync" \in mxmCache.lyrics /\ bucket[RichKey] = call[c].got.richSynced)
            /\ call[c].got.synced \notin {Null, Empty} =>
                  ("normal_sync" \in mxmCache.lyrics /\ bucket[SyncKey] = call[c].got.synced)
      [] call[c].kind = "golyrics" ->
            goCache.present /\ bucket[GoKey] = call[c].got.ttml
      [] OTHER -> TRUE

\* C10: once a provider call has obtained content from the upstream and all the
\* background operations it registered have completed, its content persisted,
\* no negative entry of that provider for the identifier remains.
C10_PositiveClearsNegative ==
    \A c \in Calls :
        (/\ call[c].pc = "done" /\ call[c].fetches > 0 /\ HasContent(call[c].got)
         /\ OpsSettled(c) /\ Persisted(c))
            => ~negative[NegativePlatformOf(call[c].kind)].present

\* A step of call c that took a failure of the upstream that is not a 404: a
\* transport error, a status that is neither success nor 404, or a body that
\* does not parse.
LrcTransient(c) ==
    \E res \in LrcResponses :
        res.kind \in {"transport error", "500", "200 bad json"} /\ LrcFetchAndSave(c, res)
GoTransient(c) ==
    \E res \in GoResponses : res.kind \in {"transport error", "500"} /\ GoFetchAndSave(c, res)
MxmTransient(c) ==
    \/ \E res \in MatcherResponses :
           res.kind \in {"transport error", "500"} /\ MxmMatcher(c, res)
    \/ \E res \in RichsyncResponses :
           res.kind \in {"transport error", "500"} /\ MxmRichsync(c, res)

\* C12: a transient or unknown failure of the upstream (not a 404) never makes
\* a provider call write a negative-cache entry, in any of the three providers.
C12_TransientNotNegativeCached ==
    [][\A c \in Calls :
          (LrcTransient(c) \/ GoTransient(c) \/ MxmTransient(c)) =>
              ~\E o \in awaitLists' \ awaitLists : o.op = "saveNegative"]_vars

\* C14: a call of Musixmatch.getLrc that read a positive cache entry never has
\* an upstream request outstanding before it has answered, and its answer is
\* never none.
C14_MxmStaleWhileRevalidate ==
    \A c \in Calls :
        (call[c].kind = "musixmatch" /\ call[c].rows # {}) =>
            /\ call[c].pc \in {"matcher", "subtitle", "richsync"} => call[c].ret = "resolved"
            /\ call[c].ret = "resolved" => ~call[c].val.isNull

\* The UPDATEs of last_accessed_at among registered operations.
AccessUpdates(ops) == {o \in ops : o.op \in {"accessUpdate", "accessUpdateTrack"}}

\* last_accessed_at of the entry an access update is for.
LastAccessedAt(o) ==
    IF o.op = "accessUpdate" THEN goCache.last_accessed_at
    ELSE mxmCache.track.last_accessed_at

\* C30: a read of the positive cache issues the UPDATE of last_accessed_at
\* only when the entry was last accessed more than 86400 seconds ago, and
\* never when another read, concurrent ones included, has issued one for the
\* entry within the same 86400 seconds.
C30_AccessRefreshOncePerInterval ==
    [][\A o \in AccessUpdates(awaitLists' \ awaitLists) :
          /\ now - LastAccessedAt(o) > 86400
          /\ ~\E p \in AccessUpdates(awaitLists) : p.op = o.op /\ now - p.ts <= 86400]_vars

\* getLrc of call c returns in this step, the matcher having answered 200 with
\* a track.
ReturnsAfterMatch(c) ==
    \/ /\ call[c].pc \in {"richsync", "basicLrc", "subtitle", "awaitSubtitle"}
       /\ call'[c].pc = "done" /\ call'[c].ret = "resolved"
    \/ \E res \in MatcherResponses : res.kind = "200" /\ res.has = "none" /\ MxmMatcher(c, res)

\* The operations call c registers in this step.
RegisteredBy(c) == {o \in awaitLists' \ awaitLists : o.by = c}

\* C31: when getLrc returns after a resolved match, each format of the result
\* that is not empty is saved under its format with its content, and a
\* negative entry is saved exactly when the result has no content in any
\* format, be it null or an object whose fields are all empty.
C31_PersistOrNegative ==
    [][\A c \in Calls :
          ReturnsAfterMatch(c) =>
              LET result == call'[c].val
              IN /\ (result.richSynced \notin {Null, Empty}) =>
                        MxmSaveOp(c, "rich_sync", result.richSynced) \in RegisteredBy(c)
                 /\ (result.synced \notin {Null, Empty}) =>
                        MxmSaveOp(c, "normal_sync", result.synced) \in RegisteredBy(c)
                 /\ (\E o \in RegisteredBy(c) : o.op = "saveNegative") <=> ~HasContent(result)]_vars

\* The rows read by call c have no object left in the bucket.
Dangling(c) ==
    IF call[c].kind = "golyrics" THEN bucket[GoKey] = NoBlob
    ELSE \A format \in call[c].rows : bucket[FormatKey(format)] = NoBlob

\* C26: a provider whose positive-cache rows exist while none of their objects
\* can be read goes on as on a miss, to the upstream, and does not answer from
\* the cache: Musixmatch.getLrc awaits the token for its upstream call,
\* GoLyricsApi.getLrc fetches.
C26_DanglingRowIsMiss ==
    [][\A c \in Calls, draw \in RandomDraws :
          (Dangling(c) /\ (MxmUseCache(c, draw) \/ GoUseCache(c, draw))) =>
              call'[c].pc \in {"awaitToken", "fetch"}]_vars

-----------------------------------------------------------------------------
(* Spec: one request through Lyrics.handle and LyricsService.getLyrics, with  *)
(* videoId, song, artist and album given, over empty stores or over a cached  *)
(* markup-synced entry.                                                        *)

MxmIx == 1
LrcIx == 2
GoIx == 3

\* getLyrics from the loop over the combinations to its first await: the three
\* provider calls are issued (GoLyricsApi only with a duration), after
\* getToken() was called.
Dispatch(duration) ==
    /\ req.pc = "idle" /\ tok[MxmIx].pc # "idle"
    /\ req' = [req EXCEPT !.pc = "awaitAll", !.duration = duration]
    /\ call' = [call EXCEPT ![MxmIx].kind = "musixmatch", ![MxmIx].pc = "getNegative",
                            ![LrcIx].kind = "lrclib", ![LrcIx].pc = "getNegative",
                            ![GoIx].kind = IF duration THEN "golyrics" ELSE @,
                            ![GoIx].pc = IF duration THEN "getNegative" ELSE @]
    /\ UNCHANGED <<gn, al, get, cacheRev, db, cop, obs, tokenVars, cacheVars, awaitLists>>

\* What a provider call awaits never answers.
Hang(c) ==
    /\ call[c].pc \notin {"idle", "done", "never"}
    /\ call' = [call EXCEPT ![c].pc = "never"]
    /\ UNCHANGED <<sideVars, tokenVars, cacheVars, awaitLists>>

Waiting == req.pc \in {"awaitAll", "grace"}

\* lrcLibLyricsPromise settles: its .then stores the line provider's lyrics in
\* the response; lrcLibPromiseRace settles with it unless sleep(5500) did.
ThenLrcLib ==
    /\ Waiting /\ LrcIx \notin req.then /\ call[LrcIx].ret # "pending"
    /\ LET v == call[LrcIx].val
           ok == call[LrcIx].ret = "resolved"
       IN req' = [req EXCEPT
                     !.then = @ \cup {LrcIx},
                     !.lrclibSyncedLyrics = IF ok /\ ~v.isNull THEN v.synced ELSE @,
                     !.lrclibPlainLyrics = IF ok /\ ~v.isNull THEN v.unsynced ELSE @,
                     !.race = IF @ # "pending" THEN @
                              ELSE IF ok THEN "resolved" ELSE "rejected"]
    /\ UNCHANGED <<gn, al, get, cacheRev, db, cop, obs, tokenVars, cacheVars, provVars>>

\* sleep(5500) wins the race.
RaceTimeout ==
    /\ Waiting /\ req.race = "pending"
    /\ req' = [req EXCEPT !.race = "timeout"]
    /\ UNCHANGED <<gn, al, get, cacheRev, db, cop, obs, tokenVars, cacheVars, provVars>>

\* musixmatch.getLrc(...) settles: .then stores its lyrics, .catch its error.
ThenMusixmatch ==
    /\ Waiting /\ MxmIx \notin req.then /\ call[MxmIx].ret # "pending"
    /\ LET v == call[MxmIx].val
           ok == call[MxmIx].ret = "resolved"
       IN req' = [req EXCEPT
                     !.then = @ \cup {MxmIx},
                     !.musixmatchWordByWordLyrics = IF ok /\ ~v.isNull THEN v.richSynced ELSE @,
                     !.musixmatchSyncedLyrics = IF ok /\ ~v.isNull THEN v.synced ELSE @,
                     !.mxmError = ~ok]
    /\ UNCHANGED <<gn, al, get, cacheRev, db, cop, obs, tokenVars, cacheVars, provVars>>

\* goLyrics.getLrc(...) settles: .then stores its ttml; there is no .catch.
ThenGoLyrics ==
    /\ Waiting /\ GoIx \notin req.then /\ call[GoIx].ret # "pending"
    /\ LET v == call[GoIx].val
           ok == call[GoIx].ret = "resolved"
       IN req' = [req EXCEPT
                     !.then = @ \cup {GoIx},
                     !.goLyricsApiTtml = IF ok /\ ~v.isNull THEN v.ttml ELSE @]
    /\ UNCHANGED <<gn, al, get, cacheRev, db, cop, obs, tokenVars, cacheVars, provVars>>

\* getLyrics throws: Lyrics.handle catches and answers 500.
Raise ==
    req' = [req EXCEPT !.pc = "returned", !.status = 500]

\* getLyrics returns the response: Lyrics.handle answers 200.
Return ==
    req' = [req EXCEPT !.pc = "returned", !.status = 200]

\* await Promise.all([goLyrics, musixmatchLyrics]) rejects with goLyrics.
AwaitAllThrows ==
    /\ req.pc = "awaitAll"
    /\ GoIx \in req.then /\ call[GoIx].ret = "rejected"
    /\ Raise
    /\ UNCHANGED <<gn, al, get, cacheRev, db, cop, obs, tokenVars, cacheVars, provVars>>

\* A string or null in a condition.
Truthy(v) == v \notin {Null, Empty}

\* lrcLibTimeout, in tenths of a millisecond: 4 when response.goLyricsApiTtml
\* is truthy, 0.5 otherwise.
LrcLibTimeout(goLyricsApiTtml) == IF Truthy(goLyricsApiTtml) THEN 40 ELSE 5

\* await Promise.all([goLyrics, musixmatchLyrics]) resolves; the grace period of
\* the line provider is chosen.
AwaitAllDone ==
    /\ req.pc = "awaitAll"
    /\ MxmIx \in req.then
    /\ req.duration => (GoIx \in req.then /\ call[GoIx].ret = "resolved")
    /\ req' = [req EXCEPT !.pc = "grace",
                          !.lrcLibTimeout = LrcLibTimeout(req.goLyricsApiTtml)]
    /\ UNCHANGED <<gn, al, get, cacheRev, db, cop, obs, tokenVars, cacheVars, provVars>>

\* await Promise.race([lrcLibPromiseRace, sleep(lrcLibTimeout)]): the race has
\* settled, or the grace period ends first.
GraceEnds ==
    /\ req.pc = "grace"
    /\ IF req.race = "rejected" THEN Raise ELSE Return
    /\ UNCHANGED <<gn, al, get, cacheRev, db, cop, obs, tokenVars, cacheVars, provVars>>

OldGoSavedAt == NowBase - (86400 + 1)

InitOrch ==
    /\ gn = GnDefault
    /\ db = EmptyDb /\ cop = NoCacheOps /\ obs = ObsIdle /\ al = AlIdle /\ get = GetIdle
    /\ cacheRev = "part_005"
    /\ now = NowBase
    /\ negative = [p \in NegPlatforms |-> NoRow]
    /\ mxmCache = NoMxmRows
    /\ \/ /\ goCache = NoGoRow
          /\ bucket = [k \in BucketKeys |-> NoBlob]
       \/ /\ goCache = [present |-> TRUE, r2_key |-> GoKey,
                        last_accessed_at |-> OldGoSavedAt, last_updated_at |-> OldGoSavedAt]
          /\ bucket = [k \in BucketKeys |-> IF k = GoKey THEN "lyricsB" ELSE NoBlob]
    /\ awaitLists = {}
    /\ token = Null
    /\ tokenRetryCount = 0
    /\ resetBy401 = FALSE
    /\ call = [c \in {MxmIx, LrcIx, GoIx} |-> CallIdle]
    /\ tok = [c \in {MxmIx} |-> TokIdle]
    /\ req = ReqIdle

Next ==
    \/ GetTokenCall(MxmIx)
    \/ \E res \in TokenResponses : GetTokenResponse(MxmIx, res)
    \/ \E duration \in BOOLEAN : Dispatch(duration)
    \/ \E c \in Calls : Hang(c)
    \/ \E c \in Calls : StoreReadThrows(c)
    \/ \E c \in Calls : MxmGetLrc(c)
    \/ \E c \in Calls : LrcGetLyrics(c)
    \/ \E c \in Calls, res \in LrcResponses : LrcFetchAndSave(c, res)
    \/ \E c \in Calls : GoGetLrc(c)
    \/ \E c \in Calls : GoGetGoLyricsRow(c)
    \/ \E c \in Calls, draw \in RandomDraws : GoUseCache(c, draw)
    \/ \E c \in Calls, res \in GoResponses : GoFetchAndSave(c, res)
    \/ ThenLrcLib
    \/ RaceTimeout
    \/ ThenMusixmatch
    \/ ThenGoLyrics
    \/ AwaitAllThrows
    \/ AwaitAllDone
    \/ GraceEnds
    \/ \E o \in awaitLists : SaveNegativeRun(o)
    \/ \E o \in awaitLists : DeleteNegativeRun(o)
    \/ \E o \in awaitLists : SaveGoLyricsPut(o)
    \/ \E o \in awaitLists : SaveGoLyricsRow(o)
    \/ \E o \in awaitLists : AccessUpdateRun(o)
    \/ \E o \in awaitLists : OpFails(o)

Spec == InitOrch /\ [][Next]_vars

\* Every step that is enabled is eventually taken: the event loop runs each
\* continuation whose promise has settled, each timer fires, and each answer
\* that is not withheld for ever (Hang) arrives.
SpecFair == Spec /\ WF_vars(Next)

\* C1: whatever the three providers do (content, none, HTTP error, transport
\* error, store error), getLyrics completes with the aggregate response and
\* never raises: the request is never answered through the handler's catch.
C1_NeverRaises == req.pc = "returned" => req.status = 200

\* The markup-synced provider answered with content while the word-level and
\* the line provider never complete.
MarkupOnly ==
    /\ call[GoIx].ret = "resolved" /\ Truthy(call[GoIx].val.ttml)
    /\ call[MxmIx].pc = "never"
    /\ call[LrcIx].pc = "never"

\* C2: when the markup-synced provider returns content while the word-level and
\* the line provider never complete, the request is eventually answered, with
\* the markup-synced content, empty word-level and line fields and no error.
C2_MarkupStillReturned ==
    MarkupOnly ~>
        (/\ req.pc = "returned" /\ req.status = 200
         /\ req.goLyricsApiTtml = call[GoIx].val.ttml
         /\ req.musixmatchWordByWordLyrics = Null /\ req.musixmatchSyncedLyrics = Null
         /\ req.lrclibSyncedLyrics = Null /\ req.lrclibPlainLyrics = Null)

\* C18: when the request has been answered while the line provider's call is
\* still running (the orchestrator stopped waiting for it), that call is a
\* tracked background operation: it is in the set the request boundary hands
\* off.
C18_TimedOutLineCallTracked ==
    (/\ req.pc = "returned" /\ req.status = 200
     /\ call[LrcIx].kind = "lrclib" /\ call[LrcIx].ret = "pending") =>
        \E o \in awaitLists : o.by = LrcIx /\ o.op = "fetchAndSave"

\* C23: once the word-level and the markup-synced calls have finished, the
\* grace period the orchestrator gives the line provider is longer when no
\* markup-synced result was found than when one was found; when it ends the
\* request proceeds, with or without the line provider's result.
C23_GracePeriod ==
    [][/\ (req.pc = "grace" /\ ~Truthy(req.goLyricsApiTtml)) =>
              \A ttml \in Contents : req.lrcLibTimeout > LrcLibTimeout(ttml)
       /\ (req.pc = "grace" /\ Truthy(req.goLyricsApiTtml)) =>
              req.lrcLibTimeout < LrcLibTimeout(Null)
       /\ GraceEnds => req'.pc = "returned"]_vars

\* The call ix resolved with lyrics and its .then ran while getLyrics waited.
ResolvedInTime(ix) ==
    ix \in req.then /\ call[ix].ret = "resolved" /\ ~call[ix].val.isNull

\* A format one of these calls found is in the response the client gets.
Surfaced(ix, found, field) ==
    (ResolvedInTime(ix) /\ Truthy(found)) => (req.status = 200 /\ field = found)

EveryFormatSurfaced ==
    /\ Surfaced(MxmIx, call[MxmIx].val.richSynced, req.musixmatchWordByWordLyrics)
    /\ Surfaced(MxmIx, call[MxmIx].val.synced, req.musixmatchSyncedLyrics)
    /\ Surfaced(LrcIx, call[LrcIx].val.synced, req.lrclibSyncedLyrics)
    /\ Surfaced(LrcIx, call[LrcIx].val.unsynced, req.lrclibPlainLyrics)
    /\ Surfaced(GoIx, call[GoIx].val.ttml, req.goLyricsApiTtml)

\* The formats of the response.
ResponseFormats ==
    <<req.musixmatchWordByWordLyrics, req.musixmatchSyncedLyrics,
      req.lrclibSyncedLyrics, req.lrclibPlainLyrics, req.goLyricsApiTtml>>

\* C24: when the request is answered, every non-empty format of a provider
\* call that resolved while the orchestrator waited is in the response, and a
\* format that is in the response is never removed or emptied afterwards.
C24_EveryFormatSurfaced ==
    [][/\ req'.pc = "returned" => EveryFormatSurfaced'
       /\ \A f \in DOMAIN ResponseFormats :
              Truthy(ResponseFormats[f]) => ResponseFormats'[f] = ResponseFormats[f]]_vars

-----------------------------------------------------------------------------
(* SpecCache: calls of CacheService and of Lyrics.handle's edge cache         *)

CacheOps == DOMAIN cop
CopInFlight == {i \in CacheOps : cop[i].pc \notin {"idle", "done"}}

\* The call i has returned with result r.
CopReturn(i, r) == [cop EXCEPT ![i].pc = "done", ![i].result = r]

\* A call is made: saveMusixmatchLyrics(data), getMusixmatchLyrics, saveGoLyrics(data),
\* getGoLyrics, deleteCache, each for the one videoId, or a request to
\* Lyrics.handle with its URL. Calls are made in the order of their index.
\* if (!data.musixmatch_track_id) return false
CacheCall(i, kind, track, format, content) ==
    /\ cop[i].kind = "none"
    /\ \A j \in CacheOps : j < i => cop[j].kind # "none"
    /\ CASE kind = "saveMusixmatchLyrics" ->
              track \in TrackIds \cup {"0"} /\ format \in Formats /\ content \in Contents
         [] kind = "saveGoLyrics" -> track = "0" /\ format = "ttml" /\ content \in Contents
         [] OTHER -> track = "0" /\ format = "none" /\ content = Null
    /\ LET refused == kind = "saveMusixmatchLyrics" /\ track = "0"
       IN cop' = [cop EXCEPT ![i] =
                    [CopIdle EXCEPT !.kind = kind, !.track = track, !.format = format,
                        !.content = content,
                        !.after = {j \in CacheOps : cop[j].pc = "done"},
                        !.result = IF refused THEN "false" ELSE "none",
                        !.pc = CASE refused -> "done"
                                 [] kind \in {"saveMusixmatchLyrics", "saveGoLyrics"} -> "put"
                                 [] kind = "handle" -> "match"
                                 [] OTHER -> "select"]]
    /\ UNCHANGED <<gn, al, get, cacheRev, req, obs, db, tokenVars, cacheVars, provVars>>

\* saveMusixmatchLyrics, one await at a time: the put of the object; INSERT INTO
\* tracks ... ON CONFLICT(musixmatch_track_id) DO UPDATE SET last_accessed_at,
\* last_updated_at (the row's id stands for the musixmatch_track_id it is
\* unique on); the SELECT of the id; the batch.
SaveMusixmatchLyricsStep(i) ==
    /\ cop[i].kind = "saveMusixmatchLyrics"
    /\ LET o == cop[i]
       IN CASE o.pc = "put" ->
                 /\ db' = [db EXCEPT !.objects[ObjectKey(o.track, o.format)] =
                                             Deflate(o.content)]
                 /\ cop' = [cop EXCEPT ![i].pc = "upsert"]
            [] o.pc = "upsert" ->
                 /\ db' = [db EXCEPT !.tracks =
                               {t \in @ : t.id # o.track}
                               \cup {[id |-> o.track, last_accessed_at |-> now,
                                      last_updated_at |-> now]}]
                 /\ cop' = [cop EXCEPT ![i].pc = "selectId"]
            [] o.pc = "selectId" ->
                 /\ cop' = IF \E t \in db.tracks : t.id = o.track
                           THEN [cop EXCEPT ![i].pc = "batch"] ELSE CopReturn(i, "false")
                 /\ UNCHANGED db
            [] o.pc = "batch" ->
                 /\ db' = InsertLyricsAndMapping(db, o.track, o.format, "videoId")
                 /\ cop' = CopReturn(i, "true")
            [] OTHER -> FALSE
    /\ UNCHANGED <<gn, al, get, cacheRev, req, obs, tokenVars, cacheVars, provVars>>

\* The lyrics getMusixmatchLyrics makes of the rows it read: of each row with
\* a key and a format whose object is there, the format and the inflated
\* content.
LyricsOf(results, objects) ==
    {[format |-> r.format, content |-> Inflate(objects[r.r2_object_key])] :
        r \in {x \in results : /\ x.r2_object_key # Null /\ x.format # Null
                               /\ objects[x.r2_object_key] # NoBlob}}

\* getMusixmatchLyrics: the SELECT, then the objects of the rows that have a
\* key and a format; an object that is missing gives no lyric. The rows of
\* this specification are never older than a day, so the UPDATE of
\* last_accessed_at is not issued.
GetMusixmatchLyricsStep(i) ==
    /\ cop[i].kind = "getMusixmatchLyrics"
    /\ CASE cop[i].pc = "select" ->
              LET results == SelectMusixmatchLyrics(db, "videoId")
              IN cop' = IF results = {} THEN CopReturn(i, "null")
                        ELSE [cop EXCEPT ![i].pc = "getObject", ![i].results = results]
         [] cop[i].pc = "getObject" ->
              cop' = [CopReturn(i, "data") EXCEPT ![i].lyrics =
                         LyricsOf(cop[i].results, db.objects)]
         [] OTHER -> FALSE
    /\ UNCHANGED <<gn, al, get, cacheRev, req, obs, db, tokenVars, cacheVars, provVars>>

\* saveGoLyrics: the put of the object, then INSERT INTO go_lyrics_cache ... ON
\* CONFLICT(video_id, source_platform) DO UPDATE SET r2_key, last_accessed_at,
\* last_updated_at.
SaveGoLyricsStep(i) ==
    /\ cop[i].kind = "saveGoLyrics"
    /\ CASE cop[i].pc = "put" ->
              /\ db' = [db EXCEPT !.objects[ObjectKey("videoId", cop[i].format)] =
                                          Deflate(cop[i].content)]
              /\ cop' = [cop EXCEPT ![i].pc = "upsert"]
         [] cop[i].pc = "upsert" ->
              /\ db' = [db EXCEPT !.go_lyrics_cache =
                            {g \in @ : g.video_id # "videoId"}
                            \cup {[video_id |-> "videoId",
                                   r2_key |-> ObjectKey("videoId", cop[i].format),
                                   last_accessed_at |-> now, last_updated_at |-> now]}]
              /\ cop' = CopReturn(i, "true")
         [] OTHER -> FALSE
    /\ UNCHANGED <<gn, al, get, cacheRev, req, obs, tokenVars, cacheVars, provVars>>

\* getGoLyrics: the SELECT of the row, then the object of its r2_key.
GetGoLyricsStep(i) ==
    /\ cop[i].kind = "getGoLyrics"
    /\ CASE cop[i].pc = "select" ->
              LET results == {g \in db.go_lyrics_cache : g.video_id = "videoId"}
              IN cop' = IF results = {} THEN CopReturn(i, "null")
                        ELSE [cop EXCEPT ![i].pc = "getObject", ![i].results = results]
         [] cop[i].pc = "getObject" ->
              LET key == (CHOOSE g \in cop[i].results : TRUE).r2_key
              IN cop' = IF db.objects[key] = NoBlob THEN CopReturn(i, "null")
                        ELSE [CopReturn(i, "data") EXCEPT ![i].lyrics =
                                 {[format |-> "ttml", content |-> Inflate(db.objects[key])]}]
         [] OTHER -> FALSE
    /\ UNCHANGED <<gn, al, get, cacheRev, req, obs, db, tokenVars, cacheVars, provVars>>

\* deleteCache: the SELECT of the mapping, then its DELETE statements one await
\* at a time: track_mappings (only when the SELECT found a mapping),
\* go_lyrics_cache, youtube_cache, negative_mappings.
DeleteCacheStep(i) ==
    /\ cop[i].kind = "deleteCache"
    /\ CASE cop[i].pc = "select" ->
              /\ cop' = [cop EXCEPT ![i].pc =
                           IF \E m \in db.track_mappings : m.source_track_id = "videoId"
                           THEN "delete1" ELSE "delete2"]
              /\ UNCHANGED db
         [] cop[i].pc = "delete1" ->
              /\ db' = [db EXCEPT !.track_mappings = {m \in @ : m.source_track_id # "videoId"}]
              /\ cop' = [cop EXCEPT ![i].pc = "delete2"]
         [] cop[i].pc = "delete2" ->
              /\ db' = [db EXCEPT !.go_lyrics_cache = {g \in @ : g.video_id # "videoId"}]
              /\ cop' = [cop EXCEPT ![i].pc = "delete3"]
         [] cop[i].pc = "delete3" ->
              /\ db' = [db EXCEPT !.youtube_cache = @ \ {"videoId"}]
              /\ cop' = [cop EXCEPT ![i].pc = "delete4"]
         [] cop[i].pc = "delete4" ->
              /\ db' = [db EXCEPT !.negative_mappings = {m \in @ : m.source_track_id # "videoId"}]
              /\ cop' = CopReturn(i, "void")
         [] OTHER -> FALSE
    /\ UNCHANGED <<gn, al, get, cacheRev, req, obs, tokenVars, cacheVars, provVars>>

\* Cache-control max-age of a response with synced lyrics, and of any other.
LongMaxAge == 259200
ShortMaxAge == 600

\* The fields of the LyricsResponse that hold synced lyrics: the word-level
\* and the line-level transcript of Musixmatch, the line-level transcript of
\* LrcLib, the TTML of GoLyricsApi.
SyncedFields ==
    {"musixmatchWordByWordLyrics", "musixmatchSyncedLyrics", "lrclibSyncedLyrics",
     "goLyricsApiTtml"}

\* What service.getLyrics gives Lyrics.handle: an exception, or a response,
\* given by the set of its fields that are not null (none, one or all of the
\* synced ones, or the plain lyrics of LrcLib alone).
GetLyricsOutcomes ==
    {[throws |-> TRUE, fields |-> {}]}
        \cup {[throws |-> FALSE, fields |-> f] :
                  f \in {{}, {"lrclibPlainLyrics"}, SyncedFields}
                           \cup {{field} : field \in SyncedFields}}

\* The max-age Lyrics.handle sets on the response of a result.
CacheControl(fields) ==
    IF \/ "musixmatchSyncedLyrics" \in fields
       \/ "lrclibSyncedLyrics" \in fields
       \/ "goLyricsApiTtml" \in fields
    THEN LongMaxAge ELSE ShortMaxAge

\* Lyrics.handle from cache.match(request.url) on: a cached response is
\* returned as it is; otherwise the result of getLyrics is answered with 200
\* and put into the edge cache with its max-age, an exception with 500.
HandleStep(i, outcome) ==
    /\ cop[i].kind = "handle"
    /\ CASE cop[i].pc = "match" ->
              /\ cop' = IF \E e \in db.edge : e.url = "videoId"
                        THEN CopReturn(i, "cachedResponse")
                        ELSE [cop EXCEPT ![i].pc = "getLyrics"]
              /\ UNCHANGED db
         [] cop[i].pc = "getLyrics" ->
              /\ cop' = IF outcome.throws THEN CopReturn(i, "500")
                        ELSE [cop EXCEPT ![i].pc = "put", ![i].result = "200",
                                         ![i].lyrics = outcome.fields]
              /\ UNCHANGED db
         [] cop[i].pc = "put" ->
              /\ db' = [db EXCEPT !.edge = {e \in @ : e.url # "videoId"}
                            \cup {[url |-> "videoId", fields |-> cop[i].lyrics,
                                   maxAge |-> CacheControl(cop[i].lyrics)]}]
              /\ cop' = [cop EXCEPT ![i].pc = "done"]
         [] OTHER -> FALSE
    /\ UNCHANGED <<gn, al, get, cacheRev, req, obs, tokenVars, cacheVars, provVars>>

\* A statement or an object operation of a CacheService call fails: the saves
\* catch and return false, the reads and deleteCache throw.
CacheStoreFails(i) ==
    /\ cop[i].kind \notin {"none", "handle"} /\ cop[i].pc \notin {"idle", "done"}
    /\ cop' = CopReturn(i, IF cop[i].kind \in {"saveMusixmatchLyrics", "saveGoLyrics"}
                           THEN "false" ELSE "rejected")
    /\ UNCHANGED <<gn, al, get, cacheRev, req, obs, db, tokenVars, cacheVars, provVars>>

InitCache ==
    /\ gn = GnDefault
    /\ cacheRev = "part_005"
    /\ EmptyStores
    /\ call = [c \in 1..1 |-> CallIdle]
    /\ tok = [c \in 1..1 |-> TokIdle]
    /\ req = ReqIdle
    /\ db = EmptyDb
    /\ cop = NoCacheOps
    /\ obs = ObsIdle
    /\ al = AlIdle
    /\ get = GetIdle

\* In this specification a call is made when no other is in progress.
NextCache ==
    \/ /\ CopInFlight = {}
       /\ \E i \in CacheOps,
             kind \in {"saveMusixmatchLyrics", "getMusixmatchLyrics", "saveGoLyrics",
                       "getGoLyrics", "deleteCache", "handle"},
             track \in TrackIds \cup {"0"}, format \in Formats \cup {"ttml", "none"},
             content \in Contents \cup {Null} : CacheCall(i, kind, track, format, content)
    \/ \E i \in CacheOps : SaveMusixmatchLyricsStep(i)
    \/ \E i \in CacheOps : GetMusixmatchLyricsStep(i)
    \/ \E i \in CacheOps : SaveGoLyricsStep(i)
    \/ \E i \in CacheOps : GetGoLyricsStep(i)
    \/ \E i \in CacheOps : DeleteCacheStep(i)
    \/ \E i \in CacheOps, outcome \in GetLyricsOutcomes : HandleStep(i, outcome)
    \/ \E i \in CacheOps : CacheStoreFails(i)

SpecCache == InitCache /\ [][NextCache]_vars

\* Call j was made right after call i returned, and both ran with no other call
\* in progress.
RightAfter(i, j) ==
    /\ j = i + 1
    /\ cop[i].after = 1..(i - 1) /\ cop[j].after = 1..i
    /\ cop[j].pc = "done"
    /\ \A k \in CacheOps : k > j => (cop[k].kind = "none" \/ j \in cop[k].after)

\* The lyric of a format in what a read returned.
ReturnedLyrics(j, format) == {l.content : l \in {x \in cop[j].lyrics : x.format = format}}

\* C15: a save of the positive cache that completed, followed at once by the
\* read of the same identifier, returns exactly the saved content for the
\* saved format, whatever rows and objects were there before the save.
C15_SaveGetRoundTrip ==
    \A i, j \in CacheOps :
        (RightAfter(i, j) /\ cop[i].result = "true" /\ cop[j].result # "rejected") =>
            /\ (cop[i].kind = "saveMusixmatchLyrics" /\ cop[j].kind = "getMusixmatchLyrics") =>
                  (cop[j].result = "data"
                   /\ ReturnedLyrics(j, cop[i].format) = {cop[i].content})
            /\ (cop[i].kind = "saveGoLyrics" /\ cop[j].kind = "getGoLyrics") =>
                  (cop[j].result = "data" /\ ReturnedLyrics(j, "ttml") = {cop[i].content})

\* No tier holds anything for the identifier: no row of it in track_mappings,
\* go_lyrics_cache or negative_mappings, no object under its key, no response
\* of its URL in the edge cache.
Purged(d) ==
    /\ ~\E m \in d.track_mappings : m.source_track_id = "videoId"
    /\ ~\E g \in d.go_lyrics_cache : g.video_id = "videoId"
    /\ ~\E m \in d.negative_mappings : m.source_track_id = "videoId"
    /\ d.objects[ObjectKey("videoId", "ttml")] = NoBlob
    /\ ~\E e \in d.edge : e.url = "videoId"

\* deleteCache i has returned, having run with no other call in progress.
Deleted(i) ==
    /\ cop[i].kind = "deleteCache" /\ cop[i].pc = "done" /\ cop[i].result = "void"
    /\ cop[i].after = 1..(i - 1)

\* C16: once deleteCache(videoId) has returned no tier holds anything for the
\* identifier, and the request for its lyrics that comes next is not answered
\* from a cache.
C16_DeleteCachePurgesAll ==
    \A i \in CacheOps :
        Deleted(i) =>
            /\ (\A k \in CacheOps : k > i => cop[k].kind = "none") => Purged(db)
            /\ \A j \in CacheOps :
                  (RightAfter(i, j) /\ cop[j].kind = "handle") =>
                      cop[j].result # "cachedResponse"

\* C25: the edge cache holds a response under the URL of its request, with the
\* long max-age when the response has any synced lyrics (the word-level or
\* the line-level transcript of Musixmatch, the line-level transcript of
\* LrcLib, the TTML) and with the short max-age otherwise.
C25_EdgeCacheWindow ==
    \A e \in db.edge :
        /\ e.url = "videoId"
        /\ e.maxAge = IF e.fields \cap SyncedFields # {} THEN LongMaxAge ELSE ShortMaxAge

-----------------------------------------------------------------------------
(* SpecSave: saveMusixmatchLyrics and getMusixmatchLyrics for the one videoId, *)
(* up to MaxInFlight calls in progress at a time, their awaits interleaved.    *)

InitSave == InitCache

NextSave ==
    \/ /\ Cardinality(CopInFlight) < MaxInFlight
       /\ \E i \in CacheOps, kind \in {"saveMusixmatchLyrics", "getMusixmatchLyrics"},
             track \in TrackIds \cup {"0"}, format \in Formats \cup {"none"},
             content \in Contents \cup {Null} : CacheCall(i, kind, track, format, content)
    \/ \E i \in CacheOps : SaveMusixmatchLyricsStep(i)
    \/ \E i \in CacheOps : GetMusixmatchLyricsStep(i)
    \/ \E i \in CacheOps : CacheStoreFails(i)

SpecSave == InitSave /\ [][NextSave]_vars

\* Calls i and j are saves of two formats of one track that ran at the same
\* time and have both returned true, every other call having returned before
\* either was made.
ConcurrentSaves(i, j) ==
    /\ i < j /\ i \notin cop[j].after
    /\ cop[i].kind = "saveMusixmatchLyrics" /\ cop[j].kind = "saveMusixmatchLyrics"
    /\ cop[i].track = cop[j].track /\ cop[i].format # cop[j].format
    /\ cop[i].pc = "done" /\ cop[i].result = "true"
    /\ cop[j].pc = "done" /\ cop[j].result = "true"
    /\ \A k \in CacheOps \ {i, j} : cop[k].kind = "none" \/ k \in cop[i].after

\* C27: after two saves of different formats of one track for the videoId ran
\* at the same time and both completed, however their steps interleaved, there
\* is one tracks row of the track, one track_mappings row of the videoId, and
\* a read of the videoId returns both formats, each with the content its save
\* wrote.
C27_ConcurrentSavesOfFormats ==
    \A i, j \in CacheOps :
        ConcurrentSaves(i, j) =>
            /\ Cardinality({t \in db.tracks : t.id = cop[i].track}) = 1
            /\ Cardinality({m \in db.track_mappings : m.source_track_id = "videoId"}) = 1
            /\ LyricsOf(SelectMusixmatchLyrics(db, "videoId"), db.objects) =
                   {[format |-> cop[k].format, content |-> cop[k].content] : k \in {i, j}}

-----------------------------------------------------------------------------
(* SpecFlush: addAwait and flushObservability at the request boundary        *)

\* The promises registered in store.awaitLists.
Registered == {p \in ObsPromises : obs.state[p] # "none"}

\* addAwait(promise) for each promise of ps.
AddAwait(ps) == [p \in ObsPromises |-> IF p \in ps THEN "pending" ELSE obs.state[p]]

\* GoLyricsApi.getLrc answers from the positive cache, inside the handler:
\* getGoLyrics registers the UPDATE of last_accessed_at when the row was not
\* accessed for a day (touch), getLrc registers fetchAndSave when the entry is
\* selected for refetch.
ObsGetLrc(touch, shouldRefetch) ==
    /\ obs.pc = "getLrc"
    /\ obs' = [obs EXCEPT !.pc = "handler",
                  !.state = AddAwait((IF touch THEN {"accessUpdate"} ELSE {})
                                     \cup (IF shouldRefetch THEN {"fetchAndSave"} ELSE {}))]
    /\ UNCHANGED <<gn, al, get, cacheRev, req, db, cop, tokenVars, cacheVars, provVars>>

\* app.fetch returns the response; finally ctx.waitUntil(flushObservability()):
\* the flush takes Array.from(store.awaitLists) and awaits Promise.all of it.
ObsReturn ==
    /\ obs.pc = "handler"
    /\ obs' = [obs EXCEPT !.pc = "flushing", !.snapshot = Registered]
    /\ UNCHANGED <<gn, al, get, cacheRev, req, db, cop, tokenVars, cacheVars, provVars>>

\* The registered fetchAndSave goes on when the upstream has answered: it
\* registers its writes with addAwait and returns, or throws on a transport
\* error.
ObsFetchAndSave(res) ==
    /\ obs.state["fetchAndSave"] = "pending"
    /\ obs' = [obs EXCEPT !.state =
                 CASE res.kind = "transport error" ->
                        [obs.state EXCEPT !["fetchAndSave"] = "rejected"]
                   [] res.kind = "404" ->
                        [AddAwait({"saveNegative"}) EXCEPT !["fetchAndSave"] = "fulfilled"]
                   [] res.kind = "200" /\ res.ttml # Empty ->
                        [AddAwait({"cachePut", "saveGoLyrics", "deleteNegative"})
                            EXCEPT !["fetchAndSave"] = "fulfilled"]
                   [] res.kind = "200" ->
                        [AddAwait({"cachePut", "saveNegative"})
                            EXCEPT !["fetchAndSave"] = "fulfilled"]
                   [] OTHER -> [obs.state EXCEPT !["fetchAndSave"] = "fulfilled"]]
    /\ UNCHANGED <<gn, al, get, cacheRev, req, db, cop, tokenVars, cacheVars, provVars>>

\* A registered write settles; saveGoLyrics catches its errors and is never
\* rejected.
ObsSettle(p, ok) ==
    /\ p # "fetchAndSave" /\ obs.state[p] = "pending"
    /\ ok \/ p # "saveGoLyrics"
    /\ obs' = [obs EXCEPT !.state[p] = IF ok THEN "fulfilled" ELSE "rejected"]
    /\ UNCHANGED <<gn, al, get, cacheRev, req, db, cop, tokenVars, cacheVars, provVars>>

\* Promise.all of the snapshot settles: fulfilled when all of its promises are,
\* rejected as soon as one is (which .catch logs). The flush returns and
\* nothing holds the request any longer.
ObsFlushed ==
    /\ obs.pc = "flushing"
    /\ \/ \A p \in obs.snapshot : obs.state[p] = "fulfilled"
       \/ \E p \in obs.snapshot : obs.state[p] = "rejected"
    /\ obs' = [obs EXCEPT !.pc = "completed"]
    /\ UNCHANGED <<gn, al, get, cacheRev, req, db, cop, tokenVars, cacheVars, provVars>>

InitFlush ==
    /\ gn = GnDefault
    /\ cacheRev = "part_005"
    /\ EmptyStores
    /\ call = [c \in 1..1 |-> CallIdle]
    /\ tok = [c \in 1..1 |-> TokIdle]
    /\ req = ReqIdle
    /\ db = EmptyDb
    /\ cop = NoCacheOps
    /\ obs = ObsIdle
    /\ al = AlIdle
    /\ get = GetIdle

NextFlush ==
    \/ \E touch \in BOOLEAN, shouldRefetch \in BOOLEAN : ObsGetLrc(touch, shouldRefetch)
    \/ ObsReturn
    \/ \E res \in GoResponses : ObsFetchAndSave(res)
    \/ \E p \in ObsPromises, ok \in BOOLEAN : ObsSettle(p, ok)
    \/ ObsFlushed

SpecFlush == InitFlush /\ [][NextFlush]_vars

\* C17: when the request has fully completed, every operation registered in its
\* pending-operations set during the request has been awaited: none is still
\* pending.
C17_NoDeferredWriteDropped ==
    obs.pc = "completed" => \A p \in Registered : obs.state[p] # "pending"

-----------------------------------------------------------------------------
(* SpecAlign: Musixmatch.getLrcWordByWord's alignment applied to enumerated *)
(* transcripts.                                                             *)

AlignCall ==
    /\ ~al.done
    /\ LET basicLrc == BasicLrc(al.lrcLyrics, al.musixmatchBasicLyrics)
       IN \E diff \in (IF Diffed(basicLrc, al.richSyncBody)
                       THEN DiffArrays(ParsedLrcTokenArray(basicLrc),
                                       RichSyncTokenArray(al.richSyncBody))
                       ELSE {<<>>}) :
              al' = [al EXCEPT !.done = TRUE, !.diff = diff,
                               !.result = GetLrcWordByWord(al.lrcLyrics, al.musixmatchBasicLyrics,
                                                           al.richSyncBody, diff)]
    /\ UNCHANGED <<gn, get, cacheRev, req, db, cop, obs, tokenVars, cacheVars, provVars>>

InitAlign ==
    /\ al \in AlInputs \cup AlLongInputs
    /\ get = GetIdle
    /\ gn = GnDefault
    /\ cacheRev = "part_005"
    /\ EmptyStores
    /\ call = [c \in 1..1 |-> CallIdle]
    /\ tok = [c \in 1..1 |-> TokIdle]
    /\ req = ReqIdle
    /\ db = EmptyDb
    /\ cop = NoCacheOps
    /\ obs = ObsIdle

NextAlign == AlignCall

SpecAlign == InitAlign /\ [][NextAlign]_vars

AlBasicLrc == BasicLrc(al.lrcLyrics, al.musixmatchBasicLyrics)
AlLeft == ParsedLrcTokenArray(AlBasicLrc)
AlRight == RichSyncTokenArray(al.richSyncBody)

\* The two token sequences are the same words in the same order (the word-level
\* one ends with the line break of its last item), and every token timed on
\* both sides is d later on the word-level side.
ShiftedBy(d) ==
    /\ AlBasicLrc # NoTranscript
    /\ Len(AlRight) = Len(AlLeft) + 1
    /\ \A i \in DOMAIN AlLeft :
          /\ AlRight[i].word = AlLeft[i].word
          /\ (AlLeft[i].wordTime # NoTime /\ AlRight[i].wordTime # NoTime) =>
                 AlRight[i].wordTime = AlLeft[i].wordTime + d

\* Mean d, variance 0, and the word-level transcript under one offset
\* annotation of the mean.
AcceptedWithOffset(d) ==
    /\ al.result.lyricMatchingStats.present
    /\ al.result.lyricMatchingStats.mean.den > 0
    /\ al.result.lyricMatchingStats.mean.num = d * al.result.lyricMatchingStats.mean.den
    /\ al.result.lyricMatchingStats.variance.num = 0
    /\ al.result.richSynced =
           [isNull |-> FALSE,
            offset |-> [tagged |-> TRUE, plus |-> d > 0,
                        num |-> al.result.lyricMatchingStats.mean],
            lrcStr |-> LrcStr(al.richSyncBody)]

\* C19: when the word-level and the line-level token sequences are identical
\* but for a constant shift d of the word-level times, the mean is d, the
\* variance is 0, the result is the word-level transcript under one signed
\* offset annotation of the mean, and its synced field is the line-level
\* transcript that was aligned.
C19_AlignmentAcceptance ==
    \A d \in Shifts :
        (al.done /\ ShiftedBy(d)) =>
            /\ AcceptedWithOffset(d)
            /\ al.result.synced = AlBasicLrc

\* The samples have a variance of 1.5 or more.
VarianceTooHigh ==
    /\ al.done
    /\ Diffed(AlBasicLrc, al.richSyncBody)
    /\ al.result.lyricMatchingStats.samples # <<>>
    /\ ~LessThan(al.result.lyricMatchingStats.variance, VarianceLimit)

\* C20: when the matched timestamp pairs have a variance of 1.5 or more, the
\* result has no word-level transcript, its synced field is the line-level
\* transcript that was used for the alignment, and the diagnostics mean,
\* variance, samples and diff are attached.
C20_AlignmentRejection ==
    VarianceTooHigh =>
        /\ al.result.richSynced.isNull
        /\ al.result.synced = AlBasicLrc
        /\ al.result.lyricMatchingStats.present
        /\ al.result.lyricMatchingStats.samples =
               BasicLrcOffset(AlLeft, AlRight, al.diff)
        /\ al.result.lyricMatchingStats.diff = al.diff

\* A line-level transcript was aligned and no pair of matched tokens is timed
\* on both sides.
NoSamples ==
    /\ al.done
    /\ Diffed(AlBasicLrc, al.richSyncBody)
    /\ BasicLrcOffset(AlLeft, AlRight, al.diff) = <<>>

\* C21: when a line-level transcript is available and the sample list is
\* empty, the result is the bare word-level transcript, without an offset
\* annotation, with the comment that no synced basic lyrics were found; it is
\* not a rejection.
C21_AlignmentNoSamples ==
    NoSamples =>
        /\ al.result.richSynced =
               [isNull |-> FALSE, offset |-> NoOffset, lrcStr |-> LrcStr(al.richSyncBody)]
        /\ al.result.comment = "no synced basic lyrics found"

\* A line-level transcript is there and a token sequence is over the limit.
OverLimit ==
    /\ al.done
    /\ AlBasicLrc # NoTranscript
    /\ (Len(AlLeft) > TokenLimit \/ Len(AlRight) > TokenLimit)

WithinLimit ==
    /\ al.done
    /\ AlBasicLrc # NoTranscript
    /\ Len(AlLeft) <= TokenLimit
    /\ Len(AlRight) <= TokenLimit

PreferredTranscript ==
    IF al.lrcLyrics.given /\ al.lrcLyrics.synced # NoTranscript THEN al.lrcLyrics.synced
    ELSE al.musixmatchBasicLyrics

\* C32: the transcript the alignment uses is the line provider's when that is
\* synced and otherwise the provider's own subtitle, so that the alignment is
\* performed whenever either of them is a synced transcript (and the token
\* arrays are within the limit).
C32_TranscriptFallback ==
    al.done =>
        /\ AlBasicLrc = PreferredTranscript
        /\ (PreferredTranscript # NoTranscript
            /\ ~TooLongToDiff(ParsedLrcTokenArray(PreferredTranscript), AlRight)) =>
               al.result.lyricMatchingStats.present

-----------------------------------------------------------------------------
(* SpecGet: one call of Musixmatch._get, the upstream answering each fetch    *)
(* with any status, with or without a body, or not at all.                    *)

\* _get up to the loop: a response found by cache.match(cacheUrl) is returned.
GetCall(cached) ==
    /\ get.pc = "idle"
    /\ get' = IF cached
              THEN [get EXCEPT !.pc = "done", !.cached = TRUE, !.outcome = "cachedResponse"]
              ELSE [get EXCEPT !.pc = "fetch"]
    /\ UNCHANGED <<gn, al, cacheRev, req, db, cop, obs, tokenVars, cacheVars, provVars>>

\* await fetch(...) throws.
GetFetchThrows ==
    /\ get.pc = "fetch"
    /\ get' = [get EXCEPT !.pc = "done", !.outcome = "fetch failed"]
    /\ UNCHANGED <<gn, al, cacheRev, req, db, cop, obs, tokenVars, cacheVars, provVars>>

TooManyRedirectsNever(loopCount) == FALSE

\* if (loopCount > 5)
TooManyRedirects(loopCount) == loopCount > MaxLoopCount

\* One pass of the do ... while loop after await fetch(...) gave a response,
\* and, when the loop ends, the rest of _get: loopCount is incremented and
\* compared with the limit before the status is looked at.
GetFetch(status, body) ==
    /\ get.pc = "fetch"
    /\ LET loopCount == get.loopCount + 1
           answered == [get EXCEPT !.loopCount = loopCount,
                                   !.statuses = Append(@, status)]
       IN get' = IF TooManyRedirects(loopCount)
                 THEN [answered EXCEPT !.pc = "done", !.outcome = "too many redirects"]
                 ELSE IF status \in Redirects THEN answered
                 ELSE IF ~body
                 THEN [answered EXCEPT !.pc = "done", !.outcome = "Body is missing"]
                 ELSE [answered EXCEPT !.pc = "done", !.outcome = "response"]
    /\ UNCHANGED <<gn, al, cacheRev, req, db, cop, obs, tokenVars, cacheVars, provVars>>

InitGet ==
    /\ gn = GnDefault
    /\ cacheRev = "part_005"
    /\ EmptyStores
    /\ call = [c \in 1..1 |-> CallIdle]
    /\ tok = [c \in 1..1 |-> TokIdle]
    /\ req = ReqIdle
    /\ db = EmptyDb
    /\ cop = NoCacheOps
    /\ obs = ObsIdle
    /\ al = AlIdle
    /\ get = GetIdle

NextGet ==
    \/ \E cached \in BOOLEAN : GetCall(cached)
    \/ GetFetchThrows
    \/ \E status \in Statuses, body \in BOOLEAN : GetFetch(status, body)

SpecGet == InitGet /\ [][NextGet]_vars

\* The answers before the last one were all redirects.
RedirectsBeforeLast ==
    \A k \in 1..(Len(get.statuses) - 1) : get.statuses[k] \in Redirects

\* C33: a call of _get issues at most MaxLoopCount + 1 requests and ends;
\* the response it returns is the first answer that is not a redirect, one of
\* the first MaxLoopCount answers; and it fails with 'too many redirects' only
\* after MaxLoopCount redirects in a row were followed.
C33_BoundedRedirects ==
    /\ Len(get.statuses) <= MaxLoopCount + 1
    /\ Len(get.statuses) = MaxLoopCount + 1 => get.pc = "done"
    /\ get.outcome = "response" =>
           /\ Len(get.statuses) <= MaxLoopCount
           /\ get.statuses[Len(get.statuses)] \notin Redirects
           /\ RedirectsBeforeLast
    /\ get.outcome = "too many redirects" =>
           /\ Len(get.statuses) = MaxLoopCount + 1
           /\ RedirectsBeforeLast

\* The call failed after MaxLoopCount redirects were followed.
C33_Witness ==
    /\ get.outcome = "too many redirects"
    /\ \A k \in 1..MaxLoopCount : get.statuses[k] \in Redirects

-----------------------------------------------------------------------------
(* SpecFresh: one request to the markup provider or to the word-level         *)
(* provider for a video both have cached, the entry saved now, exactly the    *)
(* word-level threshold ago, or longer ago; the clock may move before the     *)
(* entry is used. CacheService is the revision of part_004 as in SpecWord, so *)
(* that the word-level provider reaches its positive cache; with no negative  *)
(* entry the markup provider's negative check is passed under either.         *)

SavedAts == {NowBase, NowBase - MXM_DEFAULT_REFETCH_THRESHOLD, OldSavedAt}

InitFresh ==
    /\ gn = GnDefault
    /\ db = EmptyDb /\ cop = NoCacheOps /\ obs = ObsIdle /\ al = AlIdle /\ get = GetIdle
    /\ cacheRev = "part_004"
    /\ now = NowBase
    /\ negative = [p \in NegPlatforms |-> NoRow]
    /\ \E s \in SavedAts :
          /\ goCache = [present |-> TRUE, r2_key |-> GoKey,
                        last_accessed_at |-> s, last_updated_at |-> s]
          /\ mxmCache = [track |-> [present |-> TRUE, last_accessed_at |-> s,
                                    last_updated_at |-> s],
                         lyrics |-> {"rich_sync", "normal_sync"}, mapped |-> TRUE]
    /\ bucket = [k \in BucketKeys |->
                    IF k = RichKey THEN "richB" ELSE IF k = SyncKey THEN "lyricsB"
                    ELSE "lyricsA"]
    /\ awaitLists = {}
    /\ token = Null
    /\ tokenRetryCount = 0
    /\ resetBy401 = FALSE
    /\ call = [c \in 1..1 |-> CallIdle]
    /\ tok = [c \in 1..1 |-> TokIdle]
    /\ req = ReqIdle

NextFresh ==
    \/ \E d \in TickSteps : Tick(d)
    \/ \E r \in Calls : GetTokenCall(r)
    \/ \E r \in Calls, res \in TokenResponses : GetTokenResponse(r, res)
    \/ \E c \in Calls : ProvCall(c, "golyrics")
    \/ \E c \in Calls : MxmCall(c)
    \/ \E c \in Calls : StoreReadThrows(c)
    \/ \E c \in Calls : GoGetLrc(c)
    \/ \E c \in Calls : GoGetGoLyricsRow(c)
    \/ \E c \in Calls, draw \in RandomDraws : GoUseCache(c, draw)
    \/ \E c \in Calls, res \in GoResponses : GoFetchAndSave(c, res)
    \/ \E c \in Calls : MxmGetLrc(c)
    \/ \E c \in Calls : MxmGetMusixmatchLyricsRows(c)
    \/ \E c \in Calls, draw \in RandomDraws : MxmUseCache(c, draw)
    \/ \E c \in Calls : MxmAfterToken(c)
    \/ \E c \in Calls, res \in MatcherResponses : MxmMatcher(c, res)
    \/ \E c \in Calls, res \in SubtitleResponses : MxmGetLrcById(c, res)
    \/ \E c \in Calls, res \in RichsyncResponses : MxmRichsync(c, res)
    \/ \E c \in Calls, basic \in BasicLrcOutcomes, align \in AlignOutcomes :
          MxmBasicLrc(c, basic, align)
    \/ \E c \in Calls : MxmAfterSubtitle(c)
    \/ \E o \in awaitLists : SaveNegativeRun(o)
    \/ \E o \in awaitLists : DeleteNegativeRun(o)
    \/ \E o \in awaitLists : SaveGoLyricsPut(o)
    \/ \E o \in awaitLists : SaveGoLyricsRow(o)
    \/ \E o \in awaitLists : AccessUpdateRun(o)
    \/ \E o \in awaitLists : SaveMusixmatchPut(o)
    \/ \E o \in awaitLists : SaveMusixmatchTrack(o)
    \/ \E o \in awaitLists : SaveMusixmatchRows(o)
    \/ \E o \in awaitLists : TrackAccessUpdateRun(o)
    \/ \E o \in awaitLists : OpFails(o)

SpecFresh == InitFresh /\ [][NextFresh]_vars

\* Call c, which has issued no upstream request, is answered in this step with
\* val and is done, and nothing is registered for the background.
AnswersFromCacheOnly(c, val) ==
    /\ call[c].fetches = 0
    /\ call'[c].pc = "done" /\ call'[c].ret = "resolved" /\ call'[c].val = val
    /\ call'[c].fetches = 0 /\ ~call'[c].bg
    /\ awaitLists' = awaitLists

C35_WitnessGo ==
    \E c \in Calls :
        /\ call[c].kind = "golyrics" /\ call[c].pc = "done"
        /\ call[c].val = LyricsResult(Null, Null, Null, "lyricsA")
        /\ call[c].fetches = 0 /\ ~call[c].bg
        /\ now - call[c].lastUpdatedAt = GO_DEFAULT_REFETCH_THRESHOLD

=============================================================================
